---- MODULE Spec2Model ----
(***************************************************************************)
(* A model of zleye (src/src/index.ts, src/src/utils.ts): the schema       *)
(* engine (string/number/boolean/array/object/union schemas and their      *)
(* fluent modifiers), the argument parser, the positional resolver and the *)
(* dispatch of CLIImpl.parse.                                              *)
(*                                                                         *)
(* JavaScript values are tagged records.  A schema object is the sequence  *)
(* of the own-property records along its prototype chain, most derived     *)
(* first: optional(), default(), transform() and choices() push a new      *)
(* record (Object.create(this)), a property read takes the first record    *)
(* that owns the property.  Strings are TLA+ strings, so that startsWith,  *)
(* slice, split and Number() are computed as the code computes them.       *)
(***************************************************************************)
EXTENDS Integers, Sequences, FiniteSets, TLC

VARIABLES
    engine,     \* the JavaScript engine running the build: "v8" or "jsc"
    schema,     \* SpecSchema: the schema object under construction
    input,      \* SpecSchema: the value last handed to schema.parse
    result,     \* SpecSchema: what that parse call returned or threw
    spc,        \* SpecSchema: "build" until parse was called, then "parsed"
    parserOptions, \* SpecArgs: the option map handed to ArgumentParser.parse
    argv,       \* the argument vector of the call in progress or last made
    ps,         \* the ArgumentParser: its fields and the frame of its parse call
    cli,        \* SpecCLI: the CLIImpl fields: _version, _options, _positionals, _commands
    builder,    \* SpecBuild: the CommandBuilderImpl cli.command returned, its fields
    noExit,     \* SpecCLI: whether process.env.NO_EXIT is set
    cpc,        \* SpecCLI: the method of CLIImpl.parse in control, or how the call ended
    log,        \* SpecCLI: the methods entered and the output made by the call, in order
    invoked,    \* SpecCLI: the command actions invoked, each with its argument
    frame,      \* SpecCLI: the command extractCommand found and the error in flight
    ret         \* SpecCLI: what CLIImpl.parse returned or threw, or the exit code

schemaVars == <<schema, input, result, spc>>
parserVars == <<parserOptions, argv, ps>>
cliVars == <<cli, builder, noExit, cpc, log, invoked, frame, ret>>
vars == <<engine, schema, input, result, spc, parserOptions, argv, ps,
          cli, builder, noExit, cpc, log, invoked, frame, ret>>

\* ------------------------------------------------------------------------
\* JavaScript values
\* ------------------------------------------------------------------------
Undefined == [t |-> "undefined"]
Str(s) == [t |-> "string", s |-> s]
Num(n) == [t |-> "number", n |-> n]
NaN == [t |-> "number", nan |-> TRUE]
Bool(b) == [t |-> "boolean", b |-> b]
Arr(a) == [t |-> "array", a |-> a]
\* an object: its keys in insertion order, and the value of each key
Obj(k, o) == [t |-> "object", k |-> k, o |-> o]

TypeOf(v) == IF v.t = "array" THEN "object" ELSE v.t

Range(f) == {f[i] : i \in DOMAIN f}

SetMin(S) == CHOOSE x \in S : \A y \in S : x <= y

\* what a call returns, or the error it throws
Ok(v) == [ok |-> TRUE, v |-> v]
Throw(e) == [ok |-> FALSE, e |-> e]
CLIError(message) == [name |-> "CLIError", message |-> message]
Error(message) == [name |-> "Error", message |-> message]

\* ------------------------------------------------------------------------
\* JavaScript strings
\* ------------------------------------------------------------------------
CharAt(s, i) == SubSeq(s, i, i)
StartsWith(s, p) == Len(s) >= Len(p) /\ SubSeq(s, 1, Len(p)) = p
EndsWith(s, p) == Len(s) >= Len(p) /\ SubSeq(s, Len(s) - Len(p) + 1, Len(s)) = p
Slice(s, n) == SubSeq(s, n + 1, Len(s))
\* 1-based position of the first occurrence of the character c, 0 if none
IndexOfChar(s, c) ==
    LET hits == {i \in 1..Len(s) : CharAt(s, i) = c}
    IN  IF hits = {} THEN 0 ELSE SetMin(hits)
Includes(s, c) == IndexOfChar(s, c) # 0

RECURSIVE Split(_, _)
Split(s, c) ==
    LET i == IndexOfChar(s, c)
    IN  IF i = 0 THEN <<s>>
        ELSE <<SubSeq(s, 1, i - 1)>> \o Split(SubSeq(s, i + 1, Len(s)), c)

RECURSIVE Join(_, _)
Join(parts, c) ==
    IF Len(parts) = 0 THEN ""
    ELSE IF Len(parts) = 1 THEN parts[1]
    ELSE parts[1] \o c \o Join(Tail(parts), c)

RECURSIVE Trim(_)
Trim(s) ==
    IF Len(s) > 0 /\ CharAt(s, 1) = " " THEN Trim(Slice(s, 1))
    ELSE IF Len(s) > 0 /\ CharAt(s, Len(s)) = " " THEN Trim(SubSeq(s, 1, Len(s) - 1))
    ELSE s

Digits == {"0", "1", "2", "3", "4", "5", "6", "7", "8", "9"}
IsDigits(s) == Len(s) > 0 /\ \A i \in 1..Len(s) : CharAt(s, i) \in Digits
DigitValue(c) ==
    CASE c = "0" -> 0 [] c = "1" -> 1 [] c = "2" -> 2 [] c = "3" -> 3 [] c = "4" -> 4
      [] c = "5" -> 5 [] c = "6" -> 6 [] c = "7" -> 7 [] c = "8" -> 8 [] c = "9" -> 9
DigitChar(d) == CharAt("0123456789", d + 1)

RECURSIVE DigitsValue(_)
DigitsValue(s) ==
    IF Len(s) = 0 THEN 0
    ELSE 10 * DigitsValue(SubSeq(s, 1, Len(s) - 1)) + DigitValue(CharAt(s, Len(s)))

\* String(n) of an integer
RECURSIVE NumberToString(_)
NumberToString(n) ==
    IF n < 0 THEN "-" \o NumberToString(0 - n)
    ELSE IF n < 10 THEN DigitChar(n)
    ELSE NumberToString(n \div 10) \o DigitChar(n % 10)

\* Number(s) of a string: the decimal integers, the empty string, NaN otherwise
\* (the strings of this model hold no fraction, exponent or radix prefix)
StringToNumber(s) ==
    LET u == Trim(s)
    IN  IF u = "" THEN Num(0)
        ELSE IF IsDigits(u) THEN Num(DigitsValue(u))
        ELSE IF (StartsWith(u, "-") \/ StartsWith(u, "+")) /\ IsDigits(Slice(u, 1))
             THEN Num(IF StartsWith(u, "-") THEN 0 - DigitsValue(Slice(u, 1))
                      ELSE DigitsValue(Slice(u, 1)))
        ELSE NaN

\* String(v) of a primitive, as Array.prototype.toString and join use it
PrimitiveToString(v) ==
    CASE v.t = "string" -> v.s
      [] v.t = "number" -> IF "nan" \in DOMAIN v THEN "NaN" ELSE NumberToString(v.n)
      [] v.t = "boolean" -> IF v.b THEN "true" ELSE "false"
      [] v.t = "undefined" -> ""
      [] OTHER -> "[object Object]"

\* Number(value)
ToNumber(v) ==
    CASE v.t = "string" -> StringToNumber(v.s)
      [] v.t = "number" -> v
      [] v.t = "boolean" -> Num(IF v.b THEN 1 ELSE 0)
      [] v.t = "array" ->
            IF Len(v.a) = 0 THEN Num(0)
            ELSE IF Len(v.a) = 1 /\ v.a[1].t \notin {"array", "object"}
                 THEN StringToNumber(PrimitiveToString(v.a[1]))
            ELSE NaN
      [] OTHER -> NaN
IsNaN(v) == "nan" \in DOMAIN v

\* Object.keys(value) of an object or an array
ObjectKeys(v) ==
    IF v.t = "array" THEN [i \in 1..Len(v.a) |-> NumberToString(i - 1)]
    ELSE IF v.t = "object" THEN v.k
    ELSE <<>>
\* value[key], undefined when the key is absent
Prop(v, key) ==
    IF v.t = "object" /\ key \in DOMAIN v.o THEN v.o[key] ELSE Undefined
\* key in value
KeyIn(key, v) == key \in Range(ObjectKeys(v))

\* ------------------------------------------------------------------------
\* Schema objects: src/src/index.ts 336-1057
\* ------------------------------------------------------------------------
\* the records of the chain that own property p
Own(s, p) == {i \in 1..Len(s) : p \in DOMAIN s[i]}
Has(s, p) == Own(s, p) # {}
\* s.p, read through the prototype chain
Get(s, p) == s[SetMin(Own(s, p))][p]
IsOptional(s) == Has(s, "_isOptional") /\ Get(s, "_isOptional") = TRUE
HasDefault(s) == Has(s, "_defaultValue") /\ Get(s, "_defaultValue") # Undefined
TypeOfSchema(s) == Get(s, "_type")

\* z.string(), z.number(), z.boolean(), z.array(item), z.object(...), z.union(...)
StringSchema == <<[cls |-> "String", _type |-> "string"]>>
NumberSchema == <<[cls |-> "Number", _type |-> "number"]>>
BooleanSchema == <<[cls |-> "Boolean", _type |-> "boolean"]>>
ArraySchema(item) == <<[cls |-> "Array", _type |-> "array", _itemSchema |-> item]>>
\* z.object(shape): keys in declaration order, shape a record of schemas
ObjectSchema(keys, shape) ==
    <<[cls |-> "Object", _type |-> "object", _isAnyKeys |-> FALSE,
       _shapeKeys |-> keys, _shape |-> shape]>>
\* z.object(valueSchema): any keys
AnyKeysSchema(valueSchema) ==
    <<[cls |-> "Object", _type |-> "object", _isAnyKeys |-> TRUE,
       _valueSchema |-> valueSchema]>>
UnionSchema(schemas) == <<[cls |-> "Union", _type |-> "union", _schemas |-> schemas]>>

\* new PositionalSchemaImpl(name, schema): copies _isOptional and _defaultValue
PositionalSchema(name, base) ==
    <<[cls |-> "Positional", _type |-> "string", _name |-> name, _baseSchema |-> base,
       _isOptional |-> IsOptional(base),
       _defaultValue |-> IF HasDefault(base) THEN Get(base, "_defaultValue")
                         ELSE Undefined]>>
\* new VariadicPositionalSchemaImpl(name, schema)
VariadicPositionalSchema(name, item) ==
    <<[cls |-> "Variadic", _type |-> "array", _name |-> name, _itemSchema |-> item,
       _isVariadic |-> TRUE]>>

\* the fluent modifiers that clone: Object.create(this) plus one own property
optional(s) == <<[_isOptional |-> TRUE]>> \o s
default(s, v) == <<[_defaultValue |-> v]>> \o s
transform(s, fn) == <<[parse |-> fn]>> \o s
choices(s, c) == <<[_choices |-> c]>> \o s
\* the setters that assign on the receiver and return this
SetOwn(s, p, v) == <<(p :> v) @@ s[1]>> \o Tail(s)
alias(s, a) == SetOwn(s, "_alias", a)

\* the transform functions of this model: fn(value) returns or throws
TransformFns == {"wrap", "throwError", "throwCLIError"}
Apply(fn, v) ==
    CASE fn = "wrap" -> Ok(Arr(<<v>>))
      [] fn = "throwError" -> Throw(Error("transform failed"))
      [] fn = "throwCLIError" -> Throw(CLIError("transform rejected"))

\* ---- UnionSchemaImpl.validateValue's sort of the variants ----
\* the comparator handed to Array.prototype.sort
UnionCompare(a, b) ==
    IF TypeOfSchema(a) = "number" /\ TypeOfSchema(b) = "string" THEN 0 - 1
    ELSE IF TypeOfSchema(a) = "string" /\ TypeOfSchema(b) = "number" THEN 1
    ELSE 0

Reverse(s) == [i \in 1..Len(s) |-> s[Len(s) + 1 - i]]

\* V8 (node): TimSort, which for fewer than 64 elements is one run found by
\* CountAndMakeRun followed by a binary insertion sort of the rest
RECURSIVE V8RunLength(_, _, _)
V8RunLength(a, desc, idx) ==
    IF idx > Len(a) THEN Len(a)
    ELSE LET o == UnionCompare(a[idx], a[idx - 1])
         IN  IF (desc /\ o >= 0) \/ (~desc /\ o < 0) THEN idx - 1
             ELSE V8RunLength(a, desc, idx + 1)

RECURSIVE V8BinarySearch(_, _, _, _)
V8BinarySearch(a, pivot, left, right) ==
    IF left >= right THEN left
    ELSE LET mid == left + ((right - left) \div 2)
         IN  IF UnionCompare(pivot, a[mid + 1]) < 0
             THEN V8BinarySearch(a, pivot, left, mid)
             ELSE V8BinarySearch(a, pivot, mid + 1, right)

RECURSIVE V8BinaryInsertionSort(_, _)
V8BinaryInsertionSort(a, start) ==
    IF start >= Len(a) THEN a
    ELSE LET pivot == a[start + 1]
             left == V8BinarySearch(a, pivot, 0, start)
         IN  V8BinaryInsertionSort(
                 SubSeq(a, 1, left) \o <<pivot>> \o SubSeq(a, left + 1, start)
                     \o SubSeq(a, start + 2, Len(a)),
                 start + 1)

V8Sort(a) ==
    IF Len(a) < 2 THEN a
    ELSE LET desc == UnionCompare(a[2], a[1]) < 0
             run == V8RunLength(a, desc, 3)
             b == IF desc THEN Reverse(SubSeq(a, 1, run)) \o SubSeq(a, run + 1, Len(a))
                  ELSE a
         IN  V8BinaryInsertionSort(b, run)

\* JavaScriptCore (bun): bottom-up merge sort; the right element is taken only
\* when the comparator puts it strictly before the left one
RECURSIVE JSCMerge(_, _, _, _, _)
JSCMerge(src, left, leftEnd, right, rightEnd) ==
    IF left >= leftEnd /\ right >= rightEnd THEN <<>>
    ELSE IF right < rightEnd /\ (left >= leftEnd \/ UnionCompare(src[right], src[left]) < 0)
         THEN <<src[right]>> \o JSCMerge(src, left, leftEnd, right + 1, rightEnd)
    ELSE <<src[left]>> \o JSCMerge(src, left + 1, leftEnd, right, rightEnd)

RECURSIVE JSCMergePass(_, _, _)
JSCMergePass(src, width, srcIndex) ==
    LET n == Len(src)
        leftEnd == IF srcIndex + width < n + 1 THEN srcIndex + width ELSE n + 1
        rightEnd == IF leftEnd + width < n + 1 THEN leftEnd + width ELSE n + 1
    IN  IF srcIndex > n THEN <<>>
        ELSE JSCMerge(src, srcIndex, leftEnd, leftEnd, rightEnd)
                 \o JSCMergePass(src, width, srcIndex + 2 * width)

RECURSIVE JSCMergeSort(_, _)
JSCMergeSort(src, width) ==
    IF width >= Len(src) THEN src
    ELSE JSCMergeSort(JSCMergePass(src, width, 1), 2 * width)

\* [...this._schemas].sort(comparator): the comparator is not a consistent
\* ordering as soon as a variant that is neither number nor string is present,
\* so the order is the engine's
sortedSchemas(schemas) ==
    IF engine = "v8" THEN V8Sort(schemas) ELSE JSCMergeSort(schemas, 1)

\* ---- parse and validateValue ----
RECURSIVE parseVia(_, _, _, _)
RECURSIVE validateValue(_, _, _)
RECURSIVE UnionLoop(_, _, _, _, _)

\* schema.parse(value, path): the first record of the chain that owns `parse`
\* is a transform clone, whose closure calls the parse it inherited, bound to
\* the clone, and then fn; with no such record the class method runs
parse(s, value, path) == parseVia(s, 1, value, path)

\* ObjectSchemaImpl.getMissingRequiredFields
getMissingRequiredFields(this, value) ==
    IF ~Has(this, "_shape") \/ TypeOf(value) # "object" THEN {}
    ELSE {key \in Range(Get(this, "_shapeKeys")) :
              /\ ~KeyIn(key, value)
              /\ ~IsOptional(Get(this, "_shape")[key])
              /\ ~HasDefault(Get(this, "_shape")[key])}

\* BaseSchemaImpl.parse
BaseSchemaImpl_parse(this, value, path) ==
    IF value = Undefined
    THEN IF IsOptional(this) THEN Ok(Undefined)
         ELSE IF HasDefault(this) THEN Ok(Get(this, "_defaultValue"))
         ELSE Throw(CLIError(path \o " is required"))
    ELSE validateValue(this, value, path)

\* BooleanSchemaImpl.parse
BooleanSchemaImpl_parse(this, value, path) ==
    IF value = Undefined
    THEN IF IsOptional(this) THEN Ok(Undefined)
         ELSE IF HasDefault(this) THEN Ok(Get(this, "_defaultValue"))
         ELSE Ok(Bool(FALSE))
    ELSE validateValue(this, value, path)

\* VariadicPositionalSchemaImpl.parse
VariadicPositionalSchemaImpl_parse(this, value, path) ==
    IF value = Undefined \/ (value.t = "array" /\ Len(value.a) = 0)
    THEN IF HasDefault(this) THEN Ok(Get(this, "_defaultValue")) ELSE Ok(Arr(<<>>))
    ELSE validateValue(this, value, path)

\* the parse method of the object's class, called with this = the chain
ClassParse(this, value, path) ==
    CASE Get(this, "cls") = "Boolean" -> BooleanSchemaImpl_parse(this, value, path)
      [] Get(this, "cls") = "Positional" ->
            parseVia(Get(this, "_baseSchema"), 1, value, path)
      [] Get(this, "cls") = "Variadic" -> VariadicPositionalSchemaImpl_parse(this, value, path)
      [] OTHER -> BaseSchemaImpl_parse(this, value, path)

\* the closure of a transform clone: fn(originalParse(value, path))
Transformed(fn, r) == IF r.ok THEN Apply(fn, r.v) ELSE r
TransformAt(this, j, value, path) ==
    Transformed(this[j].parse, parseVia(SubSeq(this, j, Len(this)), 2, value, path))

parseVia(this, from, value, path) ==
    IF {j \in Own(this, "parse") : j >= from} = {} THEN ClassParse(this, value, path)
    ELSE TransformAt(this, SetMin({j \in Own(this, "parse") : j >= from}), value, path)

\* StringSchemaImpl.validateValue (no schema of this model sets a regex)
StringSchemaImpl_validateValue(this, value, path) ==
    IF value.t # "string" THEN Throw(CLIError(path \o " expects a text value"))
    ELSE IF Has(this, "_choices") /\ value.s \notin Range(Get(this, "_choices"))
         THEN Throw(CLIError(path \o " must be one of: " \o Join(Get(this, "_choices"), ", ")))
    ELSE IF Has(this, "_minLength") /\ Len(value.s) < Get(this, "_minLength")
         THEN Throw(CLIError(path \o " must be at least "
                        \o NumberToString(Get(this, "_minLength")) \o " characters"))
    ELSE IF Has(this, "_maxLength") /\ Len(value.s) > Get(this, "_maxLength")
         THEN Throw(CLIError(path \o " must be at most "
                        \o NumberToString(Get(this, "_maxLength")) \o " characters"))
    ELSE Ok(value)

\* NumberSchemaImpl.validateValue (every number of this model is an integer)
NumberSchemaImpl_validateValue(this, value, path) ==
    LET num == ToNumber(value)
    IN  IF IsNaN(num) THEN Throw(CLIError(path \o " expects a numeric value"))
        ELSE IF Has(this, "_isPositive") /\ num.n <= 0
             THEN Throw(CLIError(path \o " must be positive"))
        ELSE IF Has(this, "_isNegative") /\ num.n >= 0
             THEN Throw(CLIError(path \o " must be negative"))
        ELSE IF Has(this, "_min") /\ num.n < Get(this, "_min")
             THEN Throw(CLIError(path \o " must be at least " \o NumberToString(Get(this, "_min"))))
        ELSE IF Has(this, "_max") /\ num.n > Get(this, "_max")
             THEN Throw(CLIError(path \o " must be at most " \o NumberToString(Get(this, "_max"))))
        ELSE Ok(num)

\* BooleanSchemaImpl.validateValue
BooleanSchemaImpl_validateValue(this, value, path) ==
    IF value \in {Str("true"), Bool(TRUE), Str("1"), Num(1)} THEN Ok(Bool(TRUE))
    ELSE IF value \in {Str("false"), Bool(FALSE), Str("0"), Num(0)} THEN Ok(Bool(FALSE))
    ELSE Throw(CLIError(path \o " expects a boolean value"))

\* an array schema that takes a text as one element, commas or not
ArrayItems_NoSplit(value) == IF value.t = "array" THEN value.a ELSE <<value>>
\* ArraySchemaImpl.validateValue: the array as it is, a string holding a comma
\* split, trimmed and without its empty pieces, anything else as one element
ArrayItems(value) ==
    IF value.t = "array" THEN value.a
    ELSE IF value.t = "string" /\ Includes(value.s, ",")
         THEN LET pieces == Split(value.s, ",")
                  NonEmpty(x) == x.s # ""
              IN  SelectSeq([i \in 1..Len(pieces) |-> Str(Trim(pieces[i]))], NonEmpty)
    ELSE <<value>>

\* itemSchema.parse(item, `${path}[${index}]`) for every item
ItemResults(itemSchema, arr, path) ==
    [i \in 1..Len(arr) |->
        parse(itemSchema, arr[i], path \o "[" \o NumberToString(i - 1) \o "]")]

\* the checks of ArraySchemaImpl.validateValue on the items and their results
ArrayResult(this, arr, rs, path) ==
    LET IsOk(r) == r.ok
        IsCLIError(r) == ~r.ok /\ r.e.name = "CLIError"
        results == SelectSeq(rs, IsOk)
        errors == SelectSeq(rs, IsCLIError)
    IN  IF Has(this, "_minLength") /\ Len(arr) < Get(this, "_minLength")
        THEN Throw(CLIError(path \o " needs at least "
                       \o NumberToString(Get(this, "_minLength")) \o " items"))
        ELSE IF Has(this, "_maxLength") /\ Len(arr) > Get(this, "_maxLength")
        THEN Throw(CLIError(path \o " allows at most "
                       \o NumberToString(Get(this, "_maxLength")) \o " items"))
        ELSE IF Len(errors) > 0 THEN Throw(CLIError(path \o " has invalid items"))
        ELSE Ok(Arr([i \in 1..Len(results) |-> results[i].v]))

ArraySchemaImpl_validateValue(this, value, path) ==
    ArrayResult(this, ArrayItems(value),
                ItemResults(Get(this, "_itemSchema"), ArrayItems(value), path), path)

\* the first failure of a sequence of results, or the values when all succeeded
FirstFailure(rs) == rs[SetMin({i \in 1..Len(rs) : ~rs[i].ok})]
AllOk(rs) == \A i \in 1..Len(rs) : rs[i].ok

\* the object built from the results of its keys, or the first error thrown
PropertyResults(keys, rs) ==
    IF AllOk(rs)
    THEN Ok(Obj(keys, [key \in Range(keys) |->
                          rs[CHOOSE i \in 1..Len(keys) : keys[i] = key].v]))
    ELSE FirstFailure(rs)

\* ObjectSchemaImpl.validateValue
ObjectSchemaImpl_validateValue(this, value, path) ==
    IF value.t # "object" THEN Throw(CLIError(path \o " expects property assignments"))
    ELSE IF Get(this, "_isAnyKeys")
    THEN PropertyResults(value.k,
             [i \in 1..Len(value.k) |->
                 parse(Get(this, "_valueSchema"), value.o[value.k[i]],
                       path \o "." \o value.k[i])])
    ELSE IF \E k \in Range(value.k) : k \notin Range(Get(this, "_shapeKeys"))
    THEN Throw(CLIError(path \o " received unexpected properties"))
    ELSE PropertyResults(Get(this, "_shapeKeys"),
             [i \in 1..Len(Get(this, "_shapeKeys")) |->
                 parse(Get(this, "_shape")[Get(this, "_shapeKeys")[i]],
                       Prop(value, Get(this, "_shapeKeys")[i]),
                       path \o "." \o Get(this, "_shapeKeys")[i])])

\* the array of the item results, or the first error thrown
VariadicResult(rs) ==
    IF AllOk(rs) THEN Ok(Arr([i \in 1..Len(rs) |-> rs[i].v])) ELSE FirstFailure(rs)

\* VariadicPositionalSchemaImpl.validateValue
VariadicPositionalSchemaImpl_validateValue(this, values, path) ==
    IF values.t # "array" THEN Throw(CLIError(path \o " expects multiple values"))
    ELSE VariadicResult(ItemResults(Get(this, "_itemSchema"), values.a, path))

\* the specificity UnionSchemaImpl.validateValue gives a variant's CLIError
Specificity(s, value) ==
    IF TypeOfSchema(s) = "object" /\ TypeOf(value) = "object"
    THEN IF Len(ObjectKeys(value)) > 0 /\ Has(s, "_shape")
         THEN 10 * Cardinality({k \in Range(ObjectKeys(value)) : k \in Range(Get(s, "_shapeKeys"))})
              + (IF getMissingRequiredFields(s, value) # {} THEN 5 ELSE 0)
         ELSE 0
    ELSE IF TypeOfSchema(s) = TypeOf(value) THEN 1
    ELSE 0

\* the throw inside the catch block: the input has keys, none of them a key of
\* this object variant's shape
HasOnlyInvalidKeys(s, value) ==
    /\ TypeOfSchema(s) = "object" /\ TypeOf(value) = "object"
    /\ Len(ObjectKeys(value)) > 0 /\ Has(s, "_shape")
    /\ \A k \in Range(ObjectKeys(value)) : k \notin Range(Get(s, "_shapeKeys"))

\* the error thrown after every variant failed: errors.sort is stable, so the
\* first error of the highest specificity
UnionFailure(errors, path) ==
    LET top == CHOOSE i \in 1..Len(errors) :
                   /\ \A j \in 1..Len(errors) : errors[j].specificity <= errors[i].specificity
                   /\ \A j \in 1..(i - 1) : errors[j].specificity < errors[i].specificity
    IN  IF Len(errors) > 0 /\ errors[top].specificity > 0
        THEN Throw(CLIError(errors[top].error))
        ELSE Throw(CLIError(path \o " accepts multiple formats"))

\* one turn of the for loop: r is what sorted[i].parse(value, path) did
UnionTry(sorted, i, errors, value, path, r) ==
    IF r.ok THEN r
    ELSE IF r.e.name # "CLIError" THEN UnionLoop(sorted, i + 1, errors, value, path)
    ELSE IF HasOnlyInvalidKeys(sorted[i], value)
    THEN Throw(CLIError(path \o " has invalid properties: {"
                   \o Join(ObjectKeys(value), ", ") \o "}"))
    ELSE UnionLoop(sorted, i + 1,
             Append(errors, [error |-> r.e.message,
                             specificity |-> Specificity(sorted[i], value)]),
             value, path)

\* the for loop of UnionSchemaImpl.validateValue over sortedSchemas, from i on
UnionLoop(sorted, i, errors, value, path) ==
    IF i > Len(sorted) THEN UnionFailure(errors, path)
    ELSE UnionTry(sorted, i, errors, value, path, parse(sorted[i], value, path))

\* UnionSchemaImpl.validateValue
UnionSchemaImpl_validateValue(this, value, path) ==
    UnionLoop(sortedSchemas(Get(this, "_schemas")), 1, <<>>, value, path)

validateValue(this, value, path) ==
    CASE Get(this, "cls") = "String" -> StringSchemaImpl_validateValue(this, value, path)
      [] Get(this, "cls") = "Number" -> NumberSchemaImpl_validateValue(this, value, path)
      [] Get(this, "cls") = "Boolean" -> BooleanSchemaImpl_validateValue(this, value, path)
      [] Get(this, "cls") = "Array" -> ArraySchemaImpl_validateValue(this, value, path)
      [] Get(this, "cls") = "Object" -> ObjectSchemaImpl_validateValue(this, value, path)
      [] Get(this, "cls") = "Union" -> UnionSchemaImpl_validateValue(this, value, path)
      [] Get(this, "cls") = "Variadic" ->
            VariadicPositionalSchemaImpl_validateValue(this, value, path)
      [] Get(this, "cls") = "Positional" ->
            parse(Get(this, "_baseSchema"), value, path)

\* ------------------------------------------------------------------------
\* ArgumentParser: src/src/index.ts 1599-2291
\* ------------------------------------------------------------------------
\* An option map is the record [k |-> names in declaration order, o |-> schemas].
Options(k, o) == [k |-> k, o |-> o]
HasOption(options, key) == key \in Range(options.k)

\* {} and obj[k] = v on a raw-options object: a new key goes last
EmptyObject == Obj(<<>>, <<>>)
PutKey(obj, k, v) ==
    Obj(IF k \in Range(obj.k) THEN obj.k ELSE Append(obj.k, k),
        [x \in Range(obj.k) \cup {k} |-> IF x = k THEN v ELSE obj.o[x]])

\* !value
Falsy(v) == v \in {Undefined, Bool(FALSE), Str(""), Num(0)}

\* const [keyPath] = arg.slice(n).split('='), and keyPath.split('.')
KeyPathOf(arg, n) == Split(Slice(arg, n), "=")[1]
looksLikeNegativeNumber(arg) ==
    StartsWith(arg, "-") /\ Len(arg) >= 2 /\ CharAt(arg, 2) \in Digits
\* value.toLowerCase(), over the letters that occur in the tokens
UpperCase == "ABCDEFGHIJKLMNOPQRSTUVWXYZ"
LowerCase == "abcdefghijklmnopqrstuvwxyz"
RECURSIVE toLowerCase(_)
toLowerCase(s) ==
    LET c == CharAt(s, 1)
        i == IndexOfChar(UpperCase, c)
    IN  IF Len(s) = 0 THEN ""
        ELSE (IF i = 0 THEN c ELSE CharAt(LowerCase, i)) \o toLowerCase(Slice(s, 1))
isBooleanLiteral(value) == toLowerCase(value) \in {"true", "false", "0", "1"}

\* ArgumentParser.collectFlagOccurrences, for one main key
FlagOccurrences(args, options, key) ==
    LET IsOccurrence(arg) ==
            /\ StartsWith(arg, "--") /\ ~StartsWith(arg, "--no-")
            /\ Split(KeyPathOf(arg, 2), ".")[1] = key
    IN  IF HasOption(options, key) THEN SelectSeq(args, IsOccurrence) ELSE <<>>

\* ArgumentParser.detectAndReportConflicts: the keys it throws for
ConflictingKeys(args, options) ==
    {key \in Range(options.k) :
        LET flags == FlagOccurrences(args, options, key)
            hasSimple == \E i \in 1..Len(flags) :
                ~Includes(flags[i], ".") \/ Split(flags[i], "=")[1] = "--" \o key
            hasObject == \E i \in 1..Len(flags) :
                Includes(flags[i], ".") /\ ~EndsWith(Split(flags[i], "=")[1], key)
        IN  /\ Len(flags) > 1
            /\ TypeOfSchema(options.o[key]) = "union"
            /\ hasSimple /\ hasObject}

\* ArgumentParser.schemaExpectsValue: 'required', 'boolean' or 'union', or the
\* error for a key that is not in a fixed shape
RECURSIVE ExpectsValueAt(_, _)
ExpectsValueAt(current, nestedKeys) ==
    LET key == nestedKeys[1]
        firstObject == SelectSeq(Get(current, "_schemas"),
                                 LAMBDA s : TypeOfSchema(s) = "object")
    IN  IF Len(nestedKeys) = 0 THEN Ok(current)
        ELSE IF TypeOfSchema(current) = "object"
        THEN IF Get(current, "_isAnyKeys") THEN Ok(Get(current, "_valueSchema"))
             ELSE IF key \in Range(Get(current, "_shapeKeys"))
             THEN ExpectsValueAt(Get(current, "_shape")[key], Tail(nestedKeys))
             ELSE Throw(CLIError("Property '" \o key \o "' is not recognized"))
        ELSE IF TypeOfSchema(current) = "union" /\ Len(firstObject) > 0
        THEN IF Get(firstObject[1], "_isAnyKeys") THEN Ok(Get(firstObject[1], "_valueSchema"))
             ELSE IF key \in Range(Get(firstObject[1], "_shapeKeys"))
             THEN ExpectsValueAt(Get(firstObject[1], "_shape")[key], Tail(nestedKeys))
             ELSE ExpectsValueAt(current, Tail(nestedKeys))
        ELSE ExpectsValueAt(current, Tail(nestedKeys))

\* an end of schemaExpectsValue for which every union is soft
ExpectedBy_AlwaysSoft(at) ==
    IF ~at.ok THEN at
    ELSE IF TypeOfSchema(at.v) = "boolean" THEN Ok("boolean")
    ELSE IF TypeOfSchema(at.v) = "union" THEN Ok("union")
    ELSE Ok("required")
\* the end of schemaExpectsValue: what the schema the keys lead to expects
ExpectedBy(at) ==
    IF ~at.ok THEN at
    ELSE IF TypeOfSchema(at.v) = "boolean" THEN Ok("boolean")
    ELSE IF TypeOfSchema(at.v) = "union"
    THEN IF \A i \in 1..Len(Get(at.v, "_schemas")) :
                TypeOfSchema(Get(at.v, "_schemas")[i]) = "boolean"
         THEN (IF Len(Get(at.v, "_schemas")) > 0 THEN Ok("boolean") ELSE Ok("union"))
         ELSE IF \A i \in 1..Len(Get(at.v, "_schemas")) :
                     TypeOfSchema(Get(at.v, "_schemas")[i]) # "boolean"
         THEN Ok("required")
         ELSE Ok("union")
    ELSE Ok("required")

schemaExpectsValue(s, nestedKeys) == ExpectedBy(ExpectsValueAt(s, nestedKeys))

\* ArgumentParser.getNestedSchema: the schema under nestedKeys, through fixed
\* shapes and the object variants of unions, or none
NoSchema == <<>>
RECURSIVE getNestedSchema(_, _)
getNestedSchema(current, nestedKeys) ==
    LET key == nestedKeys[1]
        withKey == SelectSeq(Get(current, "_schemas"),
                       LAMBDA s : /\ TypeOfSchema(s) = "object" /\ Has(s, "_shape")
                                  /\ key \in Range(Get(s, "_shapeKeys")))
    IN  IF current = NoSchema \/ Len(nestedKeys) = 0 THEN current
        ELSE IF TypeOfSchema(current) = "object"
        THEN IF Has(current, "_shape") /\ key \in Range(Get(current, "_shapeKeys"))
             THEN getNestedSchema(Get(current, "_shape")[key], Tail(nestedKeys))
             ELSE NoSchema
        ELSE IF TypeOfSchema(current) = "union"
        THEN IF Len(withKey) > 0
             THEN getNestedSchema(Get(withKey[1], "_shape")[key], Tail(nestedKeys))
             ELSE NoSchema
        ELSE NoSchema

\* a negation rule that looks at the type only
shouldHandleNoVersion_AnyBoolean(s, parentSchema, nestedKeys) ==
    s # NoSchema /\ TypeOfSchema(s) \in {"boolean", "union"}
\* ArgumentParser.shouldHandleNoVersion(schema, parentSchema, nestedKeys);
\* NoSchema stands for a missing parentSchema
shouldHandleNoVersion(s, parentSchema, nestedKeys) ==
    LET booleans == SelectSeq(Get(s, "_schemas"), LAMBDA v : TypeOfSchema(v) = "boolean")
    IN  IF s = NoSchema THEN FALSE
        ELSE IF TypeOfSchema(s) = "boolean" /\ HasDefault(s)
                /\ Get(s, "_defaultValue") = Bool(TRUE) THEN TRUE
        ELSE IF /\ parentSchema # NoSchema /\ TypeOfSchema(parentSchema) = "object"
                /\ HasDefault(parentSchema) /\ Len(nestedKeys) = 1
                /\ TypeOfSchema(s) = "boolean"
                /\ Prop(Get(parentSchema, "_defaultValue"), nestedKeys[1]) = Bool(TRUE)
             THEN TRUE
        ELSE IF TypeOfSchema(s) = "union"
        THEN \/ /\ HasDefault(s) /\ Get(s, "_defaultValue") = Bool(TRUE)
                /\ Len(booleans) > 0
             \/ /\ Len(booleans) > 0 /\ HasDefault(booleans[1])
                /\ Get(booleans[1], "_defaultValue") = Bool(TRUE)
        ELSE FALSE

\* a leaf assignment that keeps the last value only
AssignLeaf_Overwrite(current, lastKey, value) == PutKey(current, lastKey, value)
\* the leaf assignment of setNestedValue: a second value makes an array
AssignLeaf(current, lastKey, value) ==
    LET old == Prop(current, lastKey)
    IN  IF old # Undefined /\ old.t # "array" THEN PutKey(current, lastKey, Arr(<<old, value>>))
        ELSE IF old.t = "array" THEN PutKey(current, lastKey, Arr(Append(old.a, value)))
        ELSE PutKey(current, lastKey, value)

\* the walk of setNestedValue from keys[i] down: a falsy value on the way is
\* replaced by {}, any other non-object is a conflict
RECURSIVE SetPath(_, _, _, _)
\* current[k] = the child the walk went through
PutChild(current, k, r) == IF r.ok THEN Ok(PutKey(current, k, r.v)) ELSE r
SetPath(current, keys, i, value) ==
    IF i = Len(keys) THEN Ok(AssignLeaf(current, keys[i], value))
    ELSE IF ~Falsy(Prop(current, keys[i])) /\ Prop(current, keys[i]).t # "object"
    THEN Throw(CLIError("Cannot set nested property"))
    ELSE IF /\ i = 1 /\ ~Falsy(Prop(current, keys[i]))
            /\ Prop(Prop(current, keys[i]), "_unionValue") # Undefined
    THEN Throw(CLIError("Cannot switch to object form"))
    ELSE PutChild(current, keys[i],
             SetPath(IF Falsy(Prop(current, keys[i])) THEN EmptyObject
                     ELSE Prop(current, keys[i]),
                     keys, i + 1, value))

\* ArgumentParser.setNestedValue(obj, key, value, options)
setNestedValue(obj, key, value, options) ==
    LET keys == Split(key, ".")
        existingValue == Prop(obj, keys[1])
    IN  IF Len(keys) > 1 /\ existingValue # Undefined /\ TypeOf(existingValue) # "object"
        THEN IF TypeOfSchema(options.o[keys[1]]) = "union"
             THEN Throw(CLIError("Cannot mix value types for --" \o keys[1]))
             ELSE Throw(CLIError("Cannot set property on non-object value"))
        ELSE SetPath(obj, keys, 1, value)

\* what parseFlag and parseAlias leave behind: the tokens consumed after the
\* flag, the raw options and the flag usage, or the error thrown
Consumed(n, rawOptions, flagUsage) ==
    [ok |-> TRUE, consumed |-> n, rawOptions |-> rawOptions, flagUsage |-> flagUsage,
     e |-> CLIError("")]
Thrown(e, rawOptions, flagUsage) ==
    [ok |-> FALSE, consumed |-> 0, rawOptions |-> rawOptions, flagUsage |-> flagUsage,
     e |-> e]
\* this.setNestedValue(rawOptions, keyPath, value, options); consumed = n
AfterSet(n, r, rawOptions, flagUsage) ==
    IF r.ok THEN Consumed(n, r.v, flagUsage) ELSE Thrown(r.e, rawOptions, flagUsage)
SetAndConsume(n, rawOptions, keyPath, value, options, flagUsage) ==
    AfterSet(n, setNestedValue(rawOptions, keyPath, value, options), rawOptions, flagUsage)

\* nestedSchema && this.shouldHandleNoVersion(nestedSchema, s, keys.slice(1))
NegatableUnder(nestedSchema, s, nestedKeys) ==
    nestedSchema # NoSchema /\ shouldHandleNoVersion(nestedSchema, s, nestedKeys)

\* the --no- branch of parseFlag: whether the flag may be negated
NegationHandled(keys, mainSchema) ==
    IF Len(keys) > 1
    THEN \E s \in (IF TypeOfSchema(mainSchema) = "union"
                   THEN {v \in Range(Get(mainSchema, "_schemas")) : TypeOfSchema(v) = "object"}
                   ELSE IF TypeOfSchema(mainSchema) = "object" THEN {mainSchema}
                   ELSE {}) :
             NegatableUnder(getNestedSchema(s, Tail(keys)), s, Tail(keys))
    ELSE shouldHandleNoVersion(mainSchema, NoSchema, <<>>)

\* ArgumentParser.parseFlag, the --no- branch
parseNoFlag(arg, options, rawOptions, flagUsage) ==
    IF ~HasOption(options, Split(KeyPathOf(arg, 5), ".")[1])
    THEN Thrown(CLIError(arg \o " is not recognized"), rawOptions, flagUsage)
    ELSE IF NegationHandled(Split(KeyPathOf(arg, 5), "."),
                            options.o[Split(KeyPathOf(arg, 5), ".")[1]])
    THEN SetAndConsume(0, rawOptions, KeyPathOf(arg, 5), Bool(FALSE), options, flagUsage)
    ELSE Thrown(CLIError(arg \o " cannot be negated"), rawOptions, flagUsage)

\* the value parseFlag records for a flag and the tokens it consumes: the
\* explicit value, the next token if the arity takes it, true, or no value
FlagValue(parts, args, index, expectsValue) ==
    IF Len(parts) > 1 THEN [consumed |-> 0, value |-> Str(Join(Tail(parts), "="))]
    ELSE IF /\ index + 1 <= Len(args)
            /\ IF expectsValue = "boolean"
               THEN ~StartsWith(args[index + 1], "-") /\ isBooleanLiteral(args[index + 1])
               ELSE \/ ~StartsWith(args[index + 1], "-")
                    \/ looksLikeNegativeNumber(args[index + 1])
    THEN [consumed |-> 1, value |-> Str(args[index + 1])]
    ELSE IF expectsValue = "required" THEN [consumed |-> 0, value |-> Undefined]
    ELSE [consumed |-> 0, value |-> Bool(TRUE)]

\* parseFlag from schemaExpectsValue on
FlagWithArity(keyPath, found, expectsValue, options, rawOptions, usage) ==
    IF ~expectsValue.ok THEN Thrown(expectsValue.e, rawOptions, usage)
    ELSE IF found.value = Undefined
    THEN Thrown(CLIError("--" \o keyPath \o " needs a value"), rawOptions, usage)
    ELSE SetAndConsume(found.consumed, rawOptions, keyPath, found.value, options, usage)

\* ArgumentParser.parseFlag(arg, args, index, options, rawOptions); index is the
\* 1-based position of arg in args
parseFlag(arg, args, index, options, rawOptions, flagUsage) ==
    LET parts == Split(Slice(arg, 2), "=")
        keys == Split(parts[1], ".")
        mainKey == keys[1]
        newUsage == IF Len(keys) = 1 THEN "simple" ELSE "object"
        mixes == mainKey \in DOMAIN flagUsage /\ flagUsage[mainKey] # newUsage
        usage == [k \in DOMAIN flagUsage \cup {mainKey} |->
                     IF k # mainKey THEN flagUsage[k]
                     ELSE IF mixes THEN "both" ELSE newUsage]
    IN  IF StartsWith(arg, "--no-") THEN parseNoFlag(arg, options, rawOptions, flagUsage)
        ELSE IF ~HasOption(options, mainKey)
        THEN Thrown(CLIError("--" \o mainKey \o " is not recognized"), rawOptions, flagUsage)
        ELSE IF mixes /\ TypeOfSchema(options.o[mainKey]) = "union"
        THEN Thrown(CLIError("Cannot mix forms for --" \o mainKey), rawOptions, usage)
        ELSE FlagWithArity(parts[1],
                 FlagValue(parts, args, index,
                           schemaExpectsValue(options.o[mainKey], Tail(keys)).v),
                 schemaExpectsValue(options.o[mainKey], Tail(keys)),
                 options, rawOptions, usage)

\* ArgumentParser.parseAlias: rawOptions[optionName] is assigned, not accumulated
parseAlias(arg, args, index, options, rawOptions, flagUsage) ==
    LET name == Slice(arg, 1)
        found == SelectSeq(options.k,
                     LAMBDA k : Has(options.o[k], "_alias") /\ Get(options.o[k], "_alias") = name)
        optionName == found[1]
        expectsValue == schemaExpectsValue(options.o[optionName], <<>>).v
        hasNext == index + 1 <= Len(args)
        next == args[index + 1]
    IN  IF Len(found) = 0 \/ optionName = ""
        THEN Thrown(CLIError("-" \o name \o " is not recognized"), rawOptions, flagUsage)
        ELSE IF expectsValue = "boolean"
        THEN IF hasNext /\ ~StartsWith(next, "-") /\ isBooleanLiteral(next)
             THEN Consumed(1, PutKey(rawOptions, optionName, Str(next)), flagUsage)
             ELSE Consumed(0, PutKey(rawOptions, optionName, Bool(TRUE)), flagUsage)
        ELSE IF hasNext /\ ~StartsWith(next, "-")
        THEN Consumed(1, PutKey(rawOptions, optionName, Str(next)), flagUsage)
        ELSE IF expectsValue = "required"
        THEN Thrown(CLIError("-" \o name \o " needs a value"), rawOptions, flagUsage)
        ELSE Consumed(0, PutKey(rawOptions, optionName, Bool(TRUE)), flagUsage)

\* ArgumentParser.parseBooleanValue
parseBooleanValue(value) ==
    IF value \in {Bool(TRUE), Str("true"), Str("1")} THEN Bool(TRUE)
    ELSE IF value \in {Bool(FALSE), Str("false"), Str("0")} THEN Bool(FALSE)
    ELSE Undefined

\* validateObjectInUnion on a fixed shape: the entries of rawValue in their
\* order, a key outside the shape throws, then the keys of the shape not given
ShapeResults(s, rawValue, keys, path) ==
    [i \in 1..Len(keys) |->
        IF keys[i] \notin Range(Get(s, "_shapeKeys"))
        THEN Throw(CLIError(path \o "." \o keys[i] \o " is not recognized"))
        ELSE parse(Get(s, "_shape")[keys[i]], Prop(rawValue, keys[i]),
                   path \o "." \o keys[i])]

\* ArgumentParser.validateObjectInUnion(schema, rawValue, path)
validateObjectInUnion(s, rawValue, path) ==
    IF Get(s, "_isAnyKeys")
    THEN PropertyResults(rawValue.k,
             [i \in 1..Len(rawValue.k) |->
                 parse(Get(s, "_valueSchema"), rawValue.o[rawValue.k[i]],
                       path \o "." \o rawValue.k[i])])
    ELSE PropertyResults(
             rawValue.k \o SelectSeq(Get(s, "_shapeKeys"),
                                     LAMBDA k : k \notin Range(rawValue.k)),
             ShapeResults(s, rawValue,
                 rawValue.k \o SelectSeq(Get(s, "_shapeKeys"),
                                         LAMBDA k : k \notin Range(rawValue.k)),
                 path))

\* validateObjectInUnion over object schemas in turn: what the first one that
\* validates returns, else what the last one throws
RECURSIVE FirstObjectVariant(_, _, _)
OrNextVariant(r, others, rawValue, path) ==
    IF r.ok \/ Len(others) = 0 THEN r ELSE FirstObjectVariant(others, rawValue, path)
FirstObjectVariant(objectSchemas, rawValue, path) ==
    IF Len(objectSchemas) = 0 THEN Throw(CLIError(""))
    ELSE OrNextVariant(validateObjectInUnion(objectSchemas[1], rawValue, path),
                       Tail(objectSchemas), rawValue, path)

\* the object schemas parseOptionWithSchema validates an object against: the
\* object variants of a union, or the object schema itself
ObjectSchemasOf(s) ==
    IF TypeOfSchema(s) = "union"
    THEN SelectSeq(Get(s, "_schemas"), LAMBDA v : TypeOfSchema(v) = "object")
    ELSE IF TypeOfSchema(s) = "object" THEN <<s>>
    ELSE <<>>
\* the value parseOptionWithSchema hands to schema.parse
CoercedValue(s, rawValue) ==
    IF TypeOfSchema(s) = "boolean" /\ parseBooleanValue(rawValue) # Undefined
    THEN parseBooleanValue(rawValue) ELSE rawValue

\* parseOptionWithSchema, given what validateObjectInUnion did on the object
\* schemas, what the boolean variant did on the boolean reading of rawValue,
\* and what schema.parse does on the value
OptionResult(key, s, rawValue, asObject, asBoolean, direct) ==
    IF TypeOfSchema(s) = "union"
    THEN IF rawValue.t = "object" /\ KeyIn("_unionValue", rawValue)
         THEN Throw(CLIError("Cannot mix different value types for --" \o key))
         ELSE IF rawValue.t = "object" /\ asObject.ok THEN asObject
         ELSE IF /\ parseBooleanValue(rawValue) # Undefined
                 /\ \E i \in 1..Len(Get(s, "_schemas")) :
                        TypeOfSchema(Get(s, "_schemas")[i]) = "boolean"
                 /\ asBoolean.ok
         THEN asBoolean
         ELSE direct
    ELSE IF TypeOfSchema(s) = "object" /\ rawValue.t = "object" THEN asObject
    ELSE direct

\* ArgumentParser.parseOptionWithSchema(key, schema, rawValue, _allOptions)
parseOptionWithSchema(key, s, rawValue) ==
    OptionResult(key, s, rawValue,
        FirstObjectVariant(ObjectSchemasOf(s), rawValue, "--" \o key),
        parse(SelectSeq(Get(s, "_schemas"), LAMBDA v : TypeOfSchema(v) = "boolean")[1],
              parseBooleanValue(rawValue), "--" \o key),
        parse(s, CoercedValue(s, rawValue), "--" \o key))

\* new ArgumentParser(): no call made yet; usageBefore remembers what
\* this.flagUsage held when the call was entered
NewParser ==
    [status |-> "new", args |-> <<>>, rawArgs |-> <<>>, i |-> 1,
     rawOptions |-> EmptyObject, positionalArgs |-> <<>>, flagUsage |-> <<>>,
     e |-> CLIError(""), parsed |-> Undefined, usageBefore |-> <<>>]

\* args.indexOf('--'), 1-based, 0 if absent
DoubleDashIndex(args) ==
    IF \E i \in 1..Len(args) : args[i] = "--"
    THEN SetMin({i \in 1..Len(args) : args[i] = "--"}) ELSE 0
\* a parse that does not stop at '--'
ArgsBefore_NoBoundary(args) == args
\* args.slice(0, doubleDashIndex), all of args without '--'
ArgsBefore(args) ==
    IF DoubleDashIndex(args) = 0 THEN args ELSE SubSeq(args, 1, DoubleDashIndex(args) - 1)
ArgsAfter(args) ==
    IF DoubleDashIndex(args) = 0 THEN <<>>
    ELSE SubSeq(args, DoubleDashIndex(args) + 1, Len(args))

\* a parse that starts its scan without the conflict report
BeginWith_NoReport(before, after, opts, conflicts) ==
    [NewParser EXCEPT !.args = before, !.rawArgs = after, !.status = "scan"]
\* the conflict report of detectAndReportConflicts: the first key in the order
\* it was met
BeginWith(before, after, opts, conflicts) ==
    IF conflicts # {}
    THEN [NewParser EXCEPT
             !.args = before, !.rawArgs = after, !.status = "failed",
             !.e = CLIError("Cannot mix different forms of --" \o
                     Split(KeyPathOf(before[SetMin({i \in 1..Len(before) :
                         \E key \in conflicts :
                             FlagOccurrences(<<before[i]>>, opts, key) # <<>>})], 2), ".")[1])]
    ELSE [NewParser EXCEPT !.args = before, !.rawArgs = after, !.status = "scan"]

\* ArgumentParser.parse up to its scan loop: the split at '--', the cleared
\* maps and the conflict report
ParseBegin(args, opts) ==
    BeginWith(ArgsBefore(args), ArgsAfter(args), opts,
              ConflictingKeys(ArgsBefore(args), opts))

\* a map that keeps its entries
Cleared_Kept(map) == map
\* this.flagUsage.clear()
Cleared(map) == <<>>
\* ArgumentParser.parse up to its scan loop on the parser that made the call
\* p: the locals are new, the map of the parser is cleared
ParseAgain(p, args, opts) ==
    [ParseBegin(args, opts) EXCEPT !.flagUsage = Cleared(p.flagUsage),
                                   !.usageBefore = p.flagUsage]

\* an iteration that steps over one token more than the flag consumed
ScanOption_SkipsOne(p, r) ==
    IF r.ok
    THEN [p EXCEPT !.i = p.i + r.consumed + 2, !.rawOptions = r.rawOptions,
                   !.flagUsage = r.flagUsage]
    ELSE [p EXCEPT !.status = "failed", !.e = r.e, !.rawOptions = r.rawOptions,
                   !.flagUsage = r.flagUsage]
\* one iteration of the scan loop on a flag or an alias
ScanOption(p, r) ==
    IF r.ok
    THEN [p EXCEPT !.i = p.i + r.consumed + 1, !.rawOptions = r.rawOptions,
                   !.flagUsage = r.flagUsage]
    ELSE [p EXCEPT !.status = "failed", !.e = r.e, !.rawOptions = r.rawOptions,
                   !.flagUsage = r.flagUsage]

\* the return of ArgumentParser.parse, or the first error an option threw
ParseResult(p, opts, rs) ==
    IF AllOk(rs)
    THEN [p EXCEPT !.status = "done", !.positionalArgs = p.positionalArgs \o p.rawArgs,
                   !.parsed = PropertyResults(opts.k, rs).v]
    ELSE [p EXCEPT !.status = "failed", !.positionalArgs = p.positionalArgs \o p.rawArgs,
                   !.e = FirstFailure(rs).e]

\* the rest of ArgumentParser.parse after the loop: the raw arguments join the
\* positionals, then every option is validated in declaration order
ParseEnd(p, opts) ==
    ParseResult(p, opts,
        [j \in 1..Len(opts.k) |->
            IF Prop(p.rawOptions, opts.k[j]) # Undefined
            THEN parseOptionWithSchema(opts.k[j], opts.o[opts.k[j]],
                                       Prop(p.rawOptions, opts.k[j]))
            ELSE parse(opts.o[opts.k[j]], Undefined, "--" \o opts.k[j])])

\* how the scan loop takes args[i]
IsFlag(arg) == StartsWith(arg, "--")
IsAlias(arg) == ~IsFlag(arg) /\ StartsWith(arg, "-") /\ ~looksLikeNegativeNumber(arg)

\* one iteration of the scan loop, on a flag, an alias, a positional
StepFlag(p, opts) ==
    ScanOption(p, parseFlag(p.args[p.i], p.args, p.i, opts, p.rawOptions, p.flagUsage))
StepAlias(p, opts) ==
    ScanOption(p, parseAlias(p.args[p.i], p.args, p.i, opts, p.rawOptions, p.flagUsage))
StepPositional(p) ==
    [p EXCEPT !.i = p.i + 1, !.positionalArgs = Append(p.positionalArgs, p.args[p.i])]

\* one step of a parse call that is scanning
ParseStep(p, opts) ==
    IF p.i > Len(p.args) THEN ParseEnd(p, opts)
    ELSE IF IsFlag(p.args[p.i]) THEN StepFlag(p, opts)
    ELSE IF IsAlias(p.args[p.i]) THEN StepAlias(p, opts)
    ELSE StepPositional(p)

RECURSIVE ParseRun(_, _)
ParseRun(p, opts) == IF p.status = "scan" THEN ParseRun(ParseStep(p, opts), opts) ELSE p

\* this.parser.parse(args, options), as one call
ArgumentParser_parse(args, opts) == ParseRun(ParseBegin(args, opts), opts)

\* ------------------------------------------------------------------------
\* CLIImpl: src/src/index.ts 2293-2594, processExit: src/src/utils.ts 9-15
\* ------------------------------------------------------------------------
\* a command as CommandBuilderImpl.action builds it; action is what fn does
Command(name, opts, positionals, action) ==
    [name |-> name, options |-> opts, positionals |-> positionals, action |-> action]
\* the fields of a CLIImpl after the builder calls; _version "" is unset
CLI(version, opts, positionals, commands) ==
    [_version |-> version, _options |-> opts, _positionals |-> positionals,
     _commands |-> commands]
NoOptions == Options(<<>>, <<>>)
NoCLI == CLI("", NoOptions, <<>>, <<>>)
\* promise is the promise the action returned: "none", "pending", "resolved"
\* or "rejected"
NoFrame == [command |-> 0, error |-> CLIError(""), promise |-> "none"]
\* new CommandBuilderImpl(name, options); registered is the position in
\* cli._commands of the command action() made of it, 0 before
CommandBuilder(name, opts) ==
    [_name |-> name, _options |-> opts, _positionals |-> <<>>, registered |-> 0]
\* no cli.command call made yet
NoBuilder == CommandBuilder("", NoOptions)
NoReturn == [kind |-> "none", v |-> Undefined]

\* this._commands.find((c) => c.name === name): its position, 0 if none
FindCommand(commands, name) ==
    IF \E i \in 1..Len(commands) : commands[i].name = name
    THEN SetMin({i \in 1..Len(commands) : commands[i].name = name}) ELSE 0

\* message.replace(pattern, replacement): the first occurrence only
ReplaceFirst(s, pattern, replacement) ==
    LET hits == {i \in 1..(Len(s) - Len(pattern) + 1) :
                    SubSeq(s, i, i + Len(pattern) - 1) = pattern}
        at == SetMin(hits)
    IN  IF hits = {} THEN s
        ELSE SubSeq(s, 1, at - 1) \o replacement \o SubSeq(s, at + Len(pattern), Len(s))

\* the catch blocks of parsePositionals
ArgumentError(name, r) ==
    Throw(CLIError("Argument <" \o name \o ">: " \o
          ReplaceFirst(ReplaceFirst(r.e.message, name \o " ", ""), name \o ": ", "")))

\* the message of the surplus check of parsePositionals
Plural(n) == IF n # 1 THEN "s" ELSE ""
TooManyArguments(args, expected) ==
    "Too many arguments provided\n\n  Expected: " \o NumberToString(expected)
        \o " argument" \o Plural(expected)
        \o "\n  Received: " \o NumberToString(Len(args)) \o " argument" \o Plural(Len(args))
        \o "\n\n  Extra: " \o Join(SubSeq(args, expected + 1, Len(args)), ", ")

\* the positions of the variadic schemas, and the schemas before the first
Variadics(schemas) ==
    {i \in 1..Len(schemas) :
        Has(schemas[i], "_isVariadic") /\ Get(schemas[i], "_isVariadic")}
FixedCount(schemas) ==
    IF Variadics(schemas) = {} THEN Len(schemas) ELSE SetMin(Variadics(schemas)) - 1

\* a resolution without the surplus check
PositionalResult_NoSurplus(args, schemas, rs, rest) ==
    IF ~AllOk(rs) THEN FirstFailure(rs)
    ELSE Ok([positionals |-> Arr([i \in 1..Len(rs) |-> rs[i].v]),
             rest |-> IF Variadics(schemas) # {} /\ rest.ok THEN rest.v ELSE Undefined])
\* parsePositionals, given what the fixed schemas did (rs) and what the
\* variadic schema did on the remaining arguments (rest)
PositionalResult(args, schemas, rs, rest) ==
    IF ~AllOk(rs)
    THEN ArgumentError(Get(schemas[SetMin({i \in 1..Len(rs) : ~rs[i].ok})], "_name"),
                       FirstFailure(rs))
    ELSE IF Variadics(schemas) # {}
    THEN IF rest.ok
         THEN Ok([positionals |-> Arr([i \in 1..Len(rs) |-> rs[i].v]), rest |-> rest.v])
         ELSE ArgumentError(Get(schemas[FixedCount(schemas) + 1], "_name"), rest)
    ELSE IF Len(args) > Len(schemas)
    THEN Throw(CLIError(TooManyArguments(args, Len(schemas))))
    ELSE Ok([positionals |-> Arr([i \in 1..Len(rs) |-> rs[i].v]), rest |-> Undefined])

\* CLIImpl.parsePositionals(args, schemas)
parsePositionals(args, schemas) ==
    PositionalResult(args, schemas,
        [i \in 1..FixedCount(schemas) |->
            parse(schemas[i], IF i <= Len(args) THEN Str(args[i]) ELSE Undefined,
                  Get(schemas[i], "_name"))],
        parse(schemas[FixedCount(schemas) + 1],
              Arr([i \in 1..(IF Len(args) > FixedCount(schemas)
                             THEN Len(args) - FixedCount(schemas) ELSE 0) |->
                      Str(args[FixedCount(schemas) + i])]),
              Get(schemas[FixedCount(schemas) + 1], "_name")))

\* the { options, positionals, rest } of a call, or the error thrown, from what
\* parser.parse left (p) and what parsePositionals did (r)
Arguments(p, r) ==
    IF p.status = "failed" THEN Throw(p.e)
    ELSE IF ~r.ok THEN r
    ELSE Ok(Obj(<<"options", "positionals", "rest">>,
                [options |-> p.parsed, positionals |-> r.v.positionals,
                 rest |-> r.v.rest]))
Resolved(p, positionals) == Arguments(p, parsePositionals(p.positionalArgs, positionals))

\* ------------------------------------------------------------------------
\* SpecSchema: a schema is built with the fluent modifiers and parses values
\* ------------------------------------------------------------------------
Engines == {"v8", "jsc"}

\* the longest chain of modifiers applied to one schema
MaxMods == 2
\* the most variants of a generated union
MaxVariants == 3

ObjectA == ObjectSchema(<<"a">>, [a |-> StringSchema])

\* z.string().transform(fn) with a function that throws a plain Error
ThrowingText == transform(StringSchema, "throwError")

\* the schemas z.* builds before any modifier is applied
BaseSchemas ==
    {StringSchema, NumberSchema, BooleanSchema, ArraySchema(StringSchema), ObjectA,
     AnyKeysSchema(StringSchema), UnionSchema(<<BooleanSchema, StringSchema>>),
     UnionSchema(<<NumberSchema, ObjectA>>),
     ArraySchema(ThrowingText), ObjectSchema(<<"a">>, [a |-> ThrowingText]),
     UnionSchema(<<ThrowingText, NumberSchema>>)}

\* the values handed to default(), by the schema's type
DefaultValues(s) ==
    CASE TypeOfSchema(s) = "string" -> {Str("")}
      [] TypeOfSchema(s) = "number" -> {Num(0)}
      [] TypeOfSchema(s) = "boolean" -> {Bool(TRUE), Bool(FALSE)}
      [] TypeOfSchema(s) = "array" -> {Arr(<<Str("x")>>)}
      [] TypeOfSchema(s) = "object" -> {Obj(<<"a">>, [a |-> Str("x")])}
      [] TypeOfSchema(s) = "union" -> {Bool(TRUE)}

\* the values handed to parse()
Inputs ==
    {Undefined, Str("42"), Str("abc"), Str("true"), Str("a,b"), Bool(TRUE), Num(5),
     Arr(<<Str("x")>>), Obj(<<"a">>, [a |-> Str("x")]), Obj(<<"b">>, [b |-> Str("x")]),
     Obj(<<>>, <<>>),
     Str("a,b,,c"), Str(" a , b"), Arr(<<Str("a"), Str("b")>>),
     Arr(<<Str("a"), Str("b"), Str("c")>>)}

IsPositional(s) == Get(s, "cls") = "Positional"

InitSchema ==
    /\ engine \in Engines
    /\ parserOptions = Options(<<>>, <<>>) /\ argv = <<>> /\ ps = NewParser
    /\ cli = NoCLI /\ builder = NoBuilder /\ noExit = FALSE
    /\ cpc = "idle" /\ log = <<>> /\ invoked = <<>>
    /\ frame = NoFrame /\ ret = NoReturn
    /\ schema \in BaseSchemas
    /\ input = Undefined
    /\ result = Ok(Undefined)
    /\ spc = "build"

\* schema.optional()
CallOptional ==
    /\ ~IsPositional(schema) /\ Len(schema) <= MaxMods
    /\ schema' = optional(schema)
    /\ spc' = "build"
    /\ input' = Undefined /\ result' = Ok(Undefined)
    /\ UNCHANGED <<engine, parserVars, cliVars>>

\* schema.default(v)
CallDefault ==
    /\ ~IsPositional(schema) /\ Len(schema) <= MaxMods
    /\ \E v \in DefaultValues(schema) : schema' = default(schema, v)
    /\ spc' = "build"
    /\ input' = Undefined /\ result' = Ok(Undefined)
    /\ UNCHANGED <<engine, parserVars, cliVars>>

\* schema.transform(fn)
CallTransform ==
    /\ ~IsPositional(schema) /\ Len(schema) <= MaxMods
    /\ \E fn \in TransformFns : schema' = transform(schema, fn)
    /\ spc' = "build"
    /\ input' = Undefined /\ result' = Ok(Undefined)
    /\ UNCHANGED <<engine, parserVars, cliVars>>

\* cli.positional(name, schema) wraps the schema
CallPositional ==
    /\ ~IsPositional(schema)
    /\ schema' = PositionalSchema("file", schema)
    /\ spc' = "build"
    /\ input' = Undefined /\ result' = Ok(Undefined)
    /\ UNCHANGED <<engine, parserVars, cliVars>>

\* schema.parse(v)
CallParse ==
    /\ \E v \in Inputs :
          /\ input' = v
          /\ result' = parse(schema, v, "value")
    /\ spc' = "parsed"
    /\ UNCHANGED <<engine, schema, parserVars, cliVars>>

NextSchema == CallOptional \/ CallDefault \/ CallTransform \/ CallPositional \/ CallParse

SpecSchema == InitSchema /\ [][NextSchema]_vars

\* ------------------------------------------------------------------------
\* SpecClone: constraint setters on a schema and on the schemas it was derived
\* from
\* ------------------------------------------------------------------------
\* schema is the schema derived last; the schema it was derived from, which the
\* caller still holds, is Tail(schema), and so on down to the schema z.* built
InitClone ==
    /\ engine \in Engines
    /\ parserOptions = Options(<<>>, <<>>) /\ argv = <<>> /\ ps = NewParser
    /\ cli = NoCLI /\ builder = NoBuilder /\ noExit = FALSE
    /\ cpc = "idle" /\ log = <<>> /\ invoked = <<>>
    /\ frame = NoFrame /\ ret = NoReturn
    /\ schema \in {StringSchema, NumberSchema}
    /\ input = Undefined
    /\ result = Ok(Undefined)
    /\ spc = "build"

\* the schema derived last after receiver.setter(v), receiver being the k-th
\* schema of the chain
SetterOn(s, k, p, v) == SubSeq(s, 1, k - 1) \o SetOwn(SubSeq(s, k, Len(s)), p, v)

\* receiver.min(4) on a text schema
CallStringMin ==
    /\ Get(schema, "cls") = "String"
    /\ \E k \in 1..Len(schema) : schema' = SetterOn(schema, k, "_minLength", 4)
    /\ spc' = "build"
    /\ input' = Undefined /\ result' = Ok(Undefined)
    /\ UNCHANGED <<engine, parserVars, cliVars>>

\* receiver.negative() on a number schema
CallNumberNegative ==
    /\ Get(schema, "cls") = "Number"
    /\ \E k \in 1..Len(schema) : schema' = SetterOn(schema, k, "_isNegative", TRUE)
    /\ spc' = "build"
    /\ input' = Undefined /\ result' = Ok(Undefined)
    /\ UNCHANGED <<engine, parserVars, cliVars>>

NextClone ==
    CallOptional \/ CallDefault \/ CallTransform \/ CallStringMin \/ CallNumberNegative
        \/ CallParse

SpecClone == InitClone /\ [][NextClone]_vars

\* ------------------------------------------------------------------------
\* SpecUnion: z.union(...variants).parse(v)
\* ------------------------------------------------------------------------
VariantPool ==
    {StringSchema, NumberSchema, BooleanSchema, ArraySchema(StringSchema), ObjectA,
     AnyKeysSchema(StringSchema)}

SeqsUpTo(S, n) == UNION {[1..k -> S] : k \in 1..n}

InitUnion ==
    /\ engine \in Engines
    /\ parserOptions = Options(<<>>, <<>>) /\ argv = <<>> /\ ps = NewParser
    /\ cli = NoCLI /\ builder = NoBuilder /\ noExit = FALSE
    /\ cpc = "idle" /\ log = <<>> /\ invoked = <<>>
    /\ frame = NoFrame /\ ret = NoReturn
    /\ schema \in {UnionSchema(vs) : vs \in SeqsUpTo(VariantPool, MaxVariants)}
    /\ input = Undefined
    /\ result = Ok(Undefined)
    /\ spc = "build"

NextUnion == CallParse

SpecUnion == InitUnion /\ [][NextUnion]_vars

\* ------------------------------------------------------------------------
\* SpecArgs: new ArgumentParser().parse(argv, options), one scan step at a time
\* ------------------------------------------------------------------------
MaxArgv == 3

\* z.boolean() flags with and without a default, and a text option
OptsFlags ==
    Options(<<"cache", "debug", "quiet", "name">>,
            [cache |-> default(BooleanSchema, Bool(TRUE)),
             debug |-> BooleanSchema,
             quiet |-> default(BooleanSchema, Bool(FALSE)),
             name |-> optional(StringSchema)])
\* unions with a boolean variant: the default on the union, on the variant, nowhere
OptsUnions ==
    Options(<<"dts", "mode", "out">>,
            [dts |-> default(UnionSchema(<<BooleanSchema,
                         ObjectSchema(<<"splitting">>, [splitting |-> BooleanSchema])>>),
                         Bool(TRUE)),
             mode |-> optional(UnionSchema(<<default(BooleanSchema, Bool(TRUE)),
                                             StringSchema>>)),
             out |-> optional(UnionSchema(<<BooleanSchema, StringSchema>>))])
\* booleans nested in objects: the default on the property, on the parent, nowhere
OptsObjects ==
    Options(<<"build", "env">>,
            [build |-> optional(ObjectSchema(<<"minify", "sourcemap">>,
                          [minify |-> default(BooleanSchema, Bool(TRUE)),
                           sourcemap |-> default(BooleanSchema, Bool(FALSE))])),
             env |-> default(ObjectSchema(<<"ci">>, [ci |-> BooleanSchema]),
                             Obj(<<"ci">>, [ci |-> Bool(TRUE)]))])
\* a flag, an alias and a value option around '--'
OptsDash ==
    Options(<<"verbose", "file">>,
            [verbose |-> alias(BooleanSchema, "v"),
             file |-> optional(StringSchema)])

\* an array option and an array nested in an object
OptsArray ==
    Options(<<"items", "deep">>,
            [items |-> optional(ArraySchema(StringSchema)),
             deep |-> optional(ObjectSchema(<<"list">>,
                         [list |-> optional(ArraySchema(StringSchema))]))])

\* a toggle and a text option
OptsToggle ==
    Options(<<"verbose", "file">>,
            [verbose |-> BooleanSchema, file |-> optional(StringSchema)])

\* unions without a Boolean variant, of Boolean variants only, of both
OptsSoft ==
    Options(<<"level", "twice", "out">>,
            [level |-> optional(UnionSchema(<<StringSchema, NumberSchema>>)),
             twice |-> optional(UnionSchema(<<BooleanSchema, BooleanSchema>>)),
             out |-> optional(UnionSchema(<<BooleanSchema, StringSchema>>))])

\* an object in an object, beside a Boolean with default true
OptsNest ==
    Options(<<"a">>,
            [a |-> optional(ObjectSchema(<<"b", "t">>,
                      [b |-> optional(ObjectSchema(<<"c">>, [c |-> optional(StringSchema)])),
                       t |-> default(BooleanSchema, Bool(TRUE))]))])

\* an array option and a union option, each with an alias
OptsAlias ==
    Options(<<"tags", "dts">>,
            [tags |-> alias(optional(ArraySchema(StringSchema)), "t"),
             dts |-> alias(optional(UnionSchema(<<BooleanSchema,
                        ObjectSchema(<<"splitting">>, [splitting |-> BooleanSchema])>>)), "d")])

\* an object option and a union option, each with a transform
OptsShaped ==
    Options(<<"build", "dts">>,
            [build |-> optional(transform(
                          ObjectSchema(<<"minify">>, [minify |-> BooleanSchema]), "wrap")),
             dts |-> optional(transform(
                        UnionSchema(<<BooleanSchema,
                            ObjectSchema(<<"splitting">>, [splitting |-> BooleanSchema])>>),
                        "wrap"))])

\* an object option that takes any keys
OptsLoader == Options(<<"loader">>, [loader |-> optional(AnyKeysSchema(StringSchema))])

\* a union with an object variant and an object, each usable in both forms
OptsForms ==
    Options(<<"dts", "build">>,
            [dts |-> optional(UnionSchema(<<BooleanSchema,
                         ObjectSchema(<<"splitting">>, [splitting |-> BooleanSchema])>>)),
             build |-> optional(ObjectSchema(<<"minify">>, [minify |-> BooleanSchema]))])

ArgConfigs ==
    {[options |-> OptsForms,
      tokens |-> {"--dts", "--dts.splitting", "--dts.dts", "--build", "--build=x",
                  "--build.minify", "x"}],
     [options |-> OptsSoft,
      tokens |-> {"--level", "--twice", "--out", "x", "true"}],
     [options |-> OptsNest,
      tokens |-> {"--a=", "--a.b=", "--a.b=v", "--a.b.c=x", "--no-a.t", "--a.t.c=x"}],
     [options |-> OptsAlias,
      tokens |-> {"--tags", "-t", "a", "-5", "--dts", "-d", "--dts.splitting"}],
     [options |-> OptsShaped,
      tokens |-> {"--build.minify", "--build=x", "--dts", "--dts=x", "--dts.splitting"}],
     [options |-> OptsLoader,
      tokens |-> {"--loader.'.p'=x", "--loader.\"a.b\"=v", "--loader.n=y"}],
     [options |-> OptsToggle,
      tokens |-> {"--verbose", "true", "TRUE", "0", "file.txt", "-1"}],
     [options |-> OptsArray,
      tokens |-> {"--items", "--items=c", "--deep.list", "a", "b", "-5"}],
     [options |-> OptsFlags,
      tokens |-> {"--no-cache", "--no-debug", "--no-quiet", "--no-name", "--cache", "false"}],
     [options |-> OptsUnions,
      tokens |-> {"--no-dts", "--no-mode", "--no-out", "--no-dts.splitting", "--out", "x"}],
     [options |-> OptsObjects,
      tokens |-> {"--no-build.minify", "--no-build.sourcemap", "--no-env.ci", "--no-build",
                  "--build.minify", "--build=x"}],
     [options |-> OptsDash,
      tokens |-> {"--", "--verbose", "-v", "--file", "-5", "true"}]}
TokensOf(opts) == (CHOOSE c \in ArgConfigs : c.options = opts).tokens

InitArgs ==
    /\ engine \in Engines
    /\ schema = StringSchema /\ input = Undefined /\ result = Ok(Undefined) /\ spc = "build"
    /\ parserOptions \in {c.options : c \in ArgConfigs}
    /\ argv = <<>>
    /\ ps = NewParser
    /\ cli = NoCLI /\ builder = NoBuilder /\ noExit = FALSE
    /\ cpc = "idle" /\ log = <<>> /\ invoked = <<>>
    /\ frame = NoFrame /\ ret = NoReturn

\* parser.parse(args, parserOptions) is entered
ParseCall ==
    /\ ps.status = "new"
    /\ \E args \in SeqsUpTo(TokensOf(parserOptions), MaxArgv) :
          /\ argv' = args
          /\ ps' = ParseBegin(args, parserOptions)
    /\ UNCHANGED <<engine, schemaVars, parserOptions, cliVars>>

Scanning == ps.status = "scan" /\ ps.i <= Len(ps.args)
\* the loop takes a token that starts with '--'
ScanFlag ==
    /\ Scanning /\ IsFlag(ps.args[ps.i])
    /\ ps' = StepFlag(ps, parserOptions)
    /\ UNCHANGED <<engine, schemaVars, parserOptions, argv, cliVars>>
\* the loop takes a token that starts with '-' and is no negative number
ScanAlias ==
    /\ Scanning /\ IsAlias(ps.args[ps.i])
    /\ ps' = StepAlias(ps, parserOptions)
    /\ UNCHANGED <<engine, schemaVars, parserOptions, argv, cliVars>>
\* the loop takes any other token
ScanPositional ==
    /\ Scanning /\ ~IsFlag(ps.args[ps.i]) /\ ~IsAlias(ps.args[ps.i])
    /\ ps' = StepPositional(ps)
    /\ UNCHANGED <<engine, schemaVars, parserOptions, argv, cliVars>>
\* the loop is over: the parserOptions are validated and parse returns or throws
ParseReturn ==
    /\ ps.status = "scan" /\ ps.i > Len(ps.args)
    /\ ps' = ParseEnd(ps, parserOptions)
    /\ UNCHANGED <<engine, schemaVars, parserOptions, argv, cliVars>>

NextArgs == ParseCall \/ ScanFlag \/ ScanAlias \/ ScanPositional \/ ParseReturn

SpecArgs == InitArgs /\ [][NextArgs]_vars

\* ------------------------------------------------------------------------
\* SpecBuild: positional() and rest() on a CLI and on a command builder
\* ------------------------------------------------------------------------
\* the longest list of positionals built
MaxPositionals == 3
PositionalNames == {"file"}
PositionalBases == {StringSchema, NumberSchema}

\* this._positionals.some((p) => '_isVariadic' in p && p._isVariadic)
HasVariadic(positionals) == Variadics(positionals) # {}

\* CLIImpl.positional(name, schema): the list after the call, or the error
CLIImpl_positional(positionals, name, base) ==
    IF HasVariadic(positionals)
    THEN Throw(CLIError("Cannot add positional after variadic positional"))
    ELSE Ok(Append(positionals, PositionalSchema(name, base)))
\* a rest() that does not look at the list
CLIImpl_rest_Unguarded(positionals, name, item) ==
    Ok(Append(positionals, VariadicPositionalSchema(name, item)))
\* CLIImpl.rest(name, schema)
CLIImpl_rest(positionals, name, item) ==
    IF HasVariadic(positionals)
    THEN Throw(CLIError("Cannot have multiple variadic positionals"))
    ELSE Ok(Append(positionals, VariadicPositionalSchema(name, item)))
\* CommandBuilderImpl.positional(name, schema)
CommandBuilderImpl_positional(positionals, name, base) ==
    IF HasVariadic(positionals)
    THEN Throw(CLIError("Cannot add positional after variadic positional"))
    ELSE Ok(Append(positionals, PositionalSchema(name, base)))
\* CommandBuilderImpl.rest(name, schema)
CommandBuilderImpl_rest(positionals, name, item) ==
    IF HasVariadic(positionals)
    THEN Throw(CLIError("Cannot have multiple variadic positionals"))
    ELSE Ok(Append(positionals, VariadicPositionalSchema(name, item)))

\* the call on the CLI returned this or threw
CliCalled(r) ==
    IF r.ok
    THEN cli' = [cli EXCEPT !._positionals = r.v] /\ ret' = [kind |-> "return", v |-> Undefined]
    ELSE cli' = cli /\ ret' = [kind |-> "throw", v |-> r.e]
\* the call on the builder returned this or threw; the command action() made
\* holds the same array as the builder
BuilderCalled(r) ==
    IF r.ok
    THEN /\ builder' = [builder EXCEPT !._positionals = r.v]
         /\ cli' = IF builder.registered = 0 THEN cli
                   ELSE [cli EXCEPT !._commands[builder.registered].positionals = r.v]
         /\ ret' = [kind |-> "return", v |-> Undefined]
    ELSE builder' = builder /\ cli' = cli /\ ret' = [kind |-> "throw", v |-> r.e]

InitBuild ==
    /\ engine \in Engines
    /\ schema = StringSchema /\ input = Undefined /\ result = Ok(Undefined) /\ spc = "build"
    /\ parserOptions = NoOptions /\ argv = <<>> /\ ps = NewParser
    /\ cli = NoCLI /\ builder = NoBuilder /\ noExit = FALSE
    /\ cpc = "idle" /\ log = <<>> /\ invoked = <<>>
    /\ frame = NoFrame /\ ret = NoReturn

\* cli.positional(name, schema)
CallCliPositional ==
    /\ Len(cli._positionals) < MaxPositionals
    /\ \E name \in PositionalNames, base \in PositionalBases :
          CliCalled(CLIImpl_positional(cli._positionals, name, base))
    /\ UNCHANGED <<engine, schemaVars, parserVars, builder, noExit, cpc, log, invoked, frame>>
\* cli.rest(name, schema)
CallCliRest ==
    /\ Len(cli._positionals) < MaxPositionals
    /\ \E name \in PositionalNames, item \in PositionalBases :
          CliCalled(CLIImpl_rest(cli._positionals, name, item))
    /\ UNCHANGED <<engine, schemaVars, parserVars, builder, noExit, cpc, log, invoked, frame>>
\* cli.command(name, options)
CallCommand ==
    /\ builder = NoBuilder
    /\ builder' = CommandBuilder("build", NoOptions)
    /\ ret' = [kind |-> "return", v |-> Undefined]
    /\ UNCHANGED <<engine, schemaVars, parserVars, cli, noExit, cpc, log, invoked, frame>>
\* builder.positional(name, schema)
CallBuilderPositional ==
    /\ builder # NoBuilder /\ Len(builder._positionals) < MaxPositionals
    /\ \E name \in PositionalNames, base \in PositionalBases :
          BuilderCalled(CommandBuilderImpl_positional(builder._positionals, name, base))
    /\ UNCHANGED <<engine, schemaVars, parserVars, noExit, cpc, log, invoked, frame>>
\* builder.rest(name, schema)
CallBuilderRest ==
    /\ builder # NoBuilder /\ Len(builder._positionals) < MaxPositionals
    /\ \E name \in PositionalNames, item \in PositionalBases :
          BuilderCalled(CommandBuilderImpl_rest(builder._positionals, name, item))
    /\ UNCHANGED <<engine, schemaVars, parserVars, noExit, cpc, log, invoked, frame>>
\* builder.action(fn) through the proxy of cli.command: the command is pushed
CallAction ==
    /\ builder # NoBuilder /\ builder.registered = 0
    /\ cli' = [cli EXCEPT !._commands =
                  Append(@, Command(builder._name, builder._options,
                                    builder._positionals, "action"))]
    /\ builder' = [builder EXCEPT !.registered = Len(cli._commands) + 1]
    /\ ret' = [kind |-> "return", v |-> Undefined]
    /\ UNCHANGED <<engine, schemaVars, parserVars, noExit, cpc, log, invoked, frame>>

NextBuild ==
    \/ CallCliPositional \/ CallCliRest \/ CallCommand
    \/ CallBuilderPositional \/ CallBuilderRest \/ CallAction

SpecBuild == InitBuild /\ [][NextBuild]_vars

\* ------------------------------------------------------------------------
\* SpecReuse: call after call on the one parser a CLI object owns
\* ------------------------------------------------------------------------
ReuseTokens == {"--dts", "--dts.splitting", "--build.minify", "-x", "x"}
\* the longest argv of a call on the reused parser
MaxReuseArgv == 2

InitReuse ==
    /\ engine \in Engines
    /\ schema = StringSchema /\ input = Undefined /\ result = Ok(Undefined) /\ spc = "build"
    /\ parserOptions = OptsForms
    /\ argv = <<>>
    /\ ps = NewParser
    /\ cli = NoCLI /\ builder = NoBuilder /\ noExit = FALSE
    /\ cpc = "idle" /\ log = <<>> /\ invoked = <<>>
    /\ frame = NoFrame /\ ret = NoReturn

\* this.parser.parse(args, this._options): the first call, or a further call
\* after one that returned or threw
ParseOnceMore ==
    /\ ps.status \in {"new", "done", "failed"}
    /\ \E args \in SeqsUpTo(ReuseTokens, MaxReuseArgv) :
          /\ argv' = args
          /\ ps' = ParseAgain(ps, args, parserOptions)
    /\ UNCHANGED <<engine, schemaVars, parserOptions, cliVars>>

NextReuse == ParseOnceMore \/ ScanFlag \/ ScanAlias \/ ScanPositional \/ ParseReturn

SpecReuse == InitReuse /\ [][NextReuse]_vars

\* ------------------------------------------------------------------------
\* SpecCLI: cli.parse(argv), one method of the dispatch at a time
\* ------------------------------------------------------------------------
\* cli().version('1.0.0').option('verbose', z.boolean().alias('v'))
\*      .command('build', { out: z.string().default('dist') }).action(fn)
\*      .command('fail').action(() => { throw new Error('action failed') })
CliBuild ==
    CLI("1.0.0",
        Options(<<"verbose">>, [verbose |-> alias(BooleanSchema, "v")]),
        <<>>,
        <<Command("build",
                  Options(<<"out">>, [out |-> default(StringSchema, Str("dist"))]),
                  <<>>, "returns"),
          Command("fail", NoOptions, <<>>, "throws")>>)
\* cli().rest('args', z.string()), without and with a version
CliRest == CLI("", NoOptions, <<VariadicPositionalSchema("args", StringSchema)>>, <<>>)
CliRestVersion ==
    CLI("2.0.0", NoOptions, <<VariadicPositionalSchema("args", StringSchema)>>, <<>>)
\* cli().option('name', z.string().optional()).positional('file', z.string())
CliPlain ==
    CLI("", Options(<<"name">>, [name |-> optional(StringSchema)]),
        <<PositionalSchema("file", StringSchema)>>, <<>>)

\* cli().positional('cmd', z.string()).positional('count', z.number())
\*      .rest('files', z.string())
CliRun ==
    CLI("", NoOptions,
        <<PositionalSchema("cmd", StringSchema), PositionalSchema("count", NumberSchema),
          VariadicPositionalSchema("files", StringSchema)>>, <<>>)

\* cli().option('verbose', z.boolean()).option('file', z.string().optional())
CliBare ==
    CLI("", Options(<<"verbose", "file">>,
                    [verbose |-> BooleanSchema, file |-> optional(StringSchema)]),
        <<>>, <<>>)

\* cli().command('deploy', { env: z.number().optional() })
\*      .positional('target', z.number()).action(fn)
\*      .command('watch').action(async () => { ... })
CliDeploy ==
    CLI("", NoOptions, <<>>,
        <<Command("deploy",
                  Options(<<"env">>, [env |-> optional(NumberSchema)]),
                  <<PositionalSchema("target", NumberSchema)>>, "returns"),
          Command("watch", NoOptions, <<>>, "pending")>>)

CliConfigs ==
    {[cli |-> CliDeploy, tokens |-> {"deploy", "watch", "3", "x", "--env", "--env=x"}],
     [cli |-> CliBare, tokens |-> {"--verbose", "file.txt", "true", "--file"}],
     [cli |-> CliRun, tokens |-> {"run", "3", "a", "--"}],
     [cli |-> CliBuild,
      tokens |-> {"build", "fail", "foo", "--version", "-v", "--help", "--out"}],
     [cli |-> CliRest, tokens |-> {"--", "-v", "--help", "test"}],
     [cli |-> CliRestVersion, tokens |-> {"--", "--version", "-h", "test"}],
     [cli |-> CliPlain, tokens |-> {"foo", "--name", "--help", "--"}]}
CliTokens(c) == (CHOOSE x \in CliConfigs : x.cli = c).tokens

InitCLI ==
    /\ engine \in Engines
    /\ schema = StringSchema /\ input = Undefined /\ result = Ok(Undefined) /\ spc = "build"
    /\ parserOptions = NoOptions /\ argv = <<>> /\ ps = NewParser
    /\ cli \in {x.cli : x \in CliConfigs} /\ builder = NoBuilder
    /\ noExit \in BOOLEAN
    /\ cpc = "idle" /\ log = <<>> /\ invoked = <<>> /\ frame = NoFrame /\ ret = NoReturn

\* processExit(code) at the end of a method, without an error: the process
\* exits, or the call goes on at the given place
ProcessExit(code, goOn, value) ==
    IF ~noExit
    THEN cpc' = "exited" /\ ret' = [kind |-> "exit", v |-> Num(code)]
    ELSE cpc' = goOn /\ ret' = value

\* cli.parse(argv) is called: handleArguments([...argv])
CLIImpl_parse ==
    /\ cpc = "idle"
    /\ \E args \in SeqsUpTo(CliTokens(cli), MaxArgv) : argv' = args
    /\ cpc' = "handleVersion"
    /\ UNCHANGED <<engine, schemaVars, parserOptions, ps, cli, builder, noExit, log, invoked, frame, ret>>

\* CLIImpl.handleVersion: it returns false even after processExit(0) returned
handleVersion ==
    /\ cpc = "handleVersion"
    /\ IF cli._version # "" /\ (\E i \in 1..Len(argv) : argv[i] \in {"--version", "-v"})
       THEN /\ log' = log \o <<"handleVersion", "console.log(version)", "processExit(0)">>
            /\ ProcessExit(0, "handleHelp", ret)
       ELSE /\ log' = Append(log, "handleVersion")
            /\ cpc' = "handleHelp" /\ ret' = ret
    /\ UNCHANGED <<engine, schemaVars, parserVars, cli, builder, noExit, invoked, frame>>

\* CLIImpl.handleHelp: it returns true after processExit(0) returned, and
\* parse returns undefined
handleHelp ==
    /\ cpc = "handleHelp"
    /\ LET hits == {i \in 1..Len(argv) : argv[i] \in {"--help", "-h"}}
           helpIndex == SetMin(hits)
           command == IF helpIndex > 1 /\ argv[helpIndex - 1] # ""
                      THEN FindCommand(cli._commands, argv[helpIndex - 1]) ELSE 0
       IN  IF hits = {}
           THEN /\ log' = Append(log, "handleHelp")
                /\ cpc' = "extractCommand" /\ ret' = ret
           ELSE /\ log' = log \o <<"handleHelp",
                                   IF command # 0 THEN "showCommandHelp" ELSE "showHelp",
                                   "processExit(0)">>
                /\ ProcessExit(0, "returned", [kind |-> "return", v |-> Undefined])
    /\ UNCHANGED <<engine, schemaVars, parserVars, cli, builder, noExit, invoked, frame>>

\* a routing that falls through to the main parse when no command matches
extractCommand_FallsThrough ==
    /\ cpc = "extractCommand"
    /\ log' = Append(log, "extractCommand")
    /\ IF Len(argv) > 0 /\ FindCommand(cli._commands, argv[1]) # 0
       THEN /\ cpc' = "executeCommand"
            /\ frame' = [frame EXCEPT !.command = FindCommand(cli._commands, argv[1])]
       ELSE cpc' = "parseMainCommand" /\ frame' = frame
    /\ UNCHANGED <<engine, schemaVars, parserVars, cli, builder, noExit, invoked, ret>>
\* CLIImpl.extractCommand
extractCommand ==
    /\ cpc = "extractCommand"
    /\ log' = Append(log, "extractCommand")
    /\ IF Len(argv) = 0 \/ StartsWith(argv[1], "-")
       THEN cpc' = "parseMainCommand" /\ frame' = frame
       ELSE IF FindCommand(cli._commands, argv[1]) # 0
       THEN /\ cpc' = "executeCommand"
            /\ frame' = [frame EXCEPT !.command = FindCommand(cli._commands, argv[1])]
       ELSE IF Len(cli._commands) > 0
       THEN /\ cpc' = "catch"
            /\ frame' = [frame EXCEPT
                            !.error = CLIError("Command '" \o argv[1] \o "' not found")]
       ELSE cpc' = "parseMainCommand" /\ frame' = frame
    /\ UNCHANGED <<engine, schemaVars, parserVars, cli, builder, noExit, invoked, ret>>

\* an action that is invoked whatever the validation made of its arguments
ActionCalled_Early(command, r) ==
    /\ invoked' = Append(invoked, [command |-> command.name,
                                   args |-> IF r.ok THEN r.v ELSE Undefined])
    /\ IF ~r.ok
       THEN cpc' = "catch" /\ frame' = [frame EXCEPT !.error = r.e] /\ ret' = ret
       ELSE cpc' = "returned" /\ frame' = frame /\ ret' = [kind |-> "return", v |-> Undefined]
\* the end of executeCommand: r is the argument of the action or the error thrown
ActionCalled(command, r) ==
    IF ~r.ok
    THEN /\ cpc' = "catch" /\ frame' = [frame EXCEPT !.error = r.e]
         /\ UNCHANGED <<invoked, ret>>
    ELSE /\ invoked' = Append(invoked, [command |-> command.name, args |-> r.v])
         /\ IF command.action = "throws"
            THEN /\ cpc' = "catch"
                 /\ frame' = [frame EXCEPT !.error = Error("action failed")]
                 /\ ret' = ret
            ELSE /\ cpc' = "returned"
                 /\ frame' = IF command.action = "pending"
                             THEN [frame EXCEPT !.promise = "pending"] ELSE frame
                 /\ ret' = [kind |-> "return", v |-> Undefined]
CommandParsed(command, p) ==
    ps' = p /\ ActionCalled(command, Resolved(p, command.positionals))

\* CLIImpl.executeCommand(command, args.slice(1))
executeCommand ==
    /\ cpc = "executeCommand"
    /\ log' = Append(log, "executeCommand")
    /\ CommandParsed(cli._commands[frame.command],
           ArgumentParser_parse(Tail(argv), cli._commands[frame.command].options))
    /\ UNCHANGED <<engine, schemaVars, parserOptions, argv, cli, builder, noExit>>

\* a main parse that hands back nothing
MainReturned_Handled(r) ==
    cpc' = "returned" /\ ret' = [kind |-> "return", v |-> Undefined] /\ frame' = frame
\* the end of parseMainCommand: r is its return value or the error thrown
MainReturned(r) ==
    IF r.ok
    THEN cpc' = "returned" /\ ret' = [kind |-> "return", v |-> r.v] /\ frame' = frame
    ELSE cpc' = "catch" /\ frame' = [frame EXCEPT !.error = r.e] /\ ret' = ret
MainParsed(p) == ps' = p /\ MainReturned(Resolved(p, cli._positionals))

\* CLIImpl.parseMainCommand(args)
parseMainCommand ==
    /\ cpc = "parseMainCommand"
    /\ log' = Append(log, "parseMainCommand")
    /\ MainParsed(ArgumentParser_parse(argv, cli._options))
    /\ UNCHANGED <<engine, schemaVars, parserOptions, argv, cli, builder, noExit, invoked>>

\* the catch block of CLIImpl.parse: showError(error), then processExit(1, error)
\* exits or throws the error again
catch ==
    /\ cpc = "catch"
    /\ log' = log \o <<"showError", "processExit(1)">>
    /\ IF ~noExit
       THEN cpc' = "exited" /\ ret' = [kind |-> "exit", v |-> Num(1)]
       ELSE cpc' = "threw" /\ ret' = [kind |-> "throw", v |-> frame.error]
    /\ UNCHANGED <<engine, schemaVars, parserVars, cli, builder, noExit, invoked, frame>>

\* the promise of the action resolves: no handler is attached for that
PromiseResolves ==
    /\ cpc = "returned" /\ frame.promise = "pending"
    /\ frame' = [frame EXCEPT !.promise = "resolved"]
    /\ UNCHANGED <<engine, schemaVars, parserVars, cli, builder, noExit, cpc, log, invoked, ret>>

\* a rejection nobody reports
PromiseRejects_Silent ==
    /\ cpc = "returned" /\ frame.promise = "pending"
    /\ frame' = [frame EXCEPT !.promise = "rejected", !.error = Error("action rejected")]
    /\ UNCHANGED <<engine, schemaVars, parserVars, cli, builder, noExit, cpc, log, invoked, ret>>
\* the promise of the action rejects: the handler of result.catch runs
\* showError(err) and processExit(1, err), which exits or throws err out of
\* the handler, where nothing catches it
PromiseRejects ==
    /\ cpc = "returned" /\ frame.promise = "pending"
    /\ frame' = [frame EXCEPT !.promise = "rejected", !.error = Error("action rejected")]
    /\ log' = log \o <<"showError", "processExit(1)">>
    /\ IF ~noExit
       THEN cpc' = "exited" /\ ret' = [kind |-> "exit", v |-> Num(1)]
       ELSE cpc' = cpc /\ ret' = ret
    /\ UNCHANGED <<engine, schemaVars, parserVars, cli, builder, noExit, invoked>>

NextCLI ==
    \/ CLIImpl_parse \/ handleVersion \/ handleHelp \/ extractCommand
    \/ executeCommand \/ parseMainCommand \/ catch
    \/ PromiseResolves \/ PromiseRejects

SpecCLI == InitCLI /\ [][NextCLI]_vars

\* ------------------------------------------------------------------------
\* Claims on the schema engine
\* ------------------------------------------------------------------------
\* the schema a positional wraps, or the schema itself
Underlying(s) == IF IsPositional(s) THEN Get(s, "_baseSchema") ELSE s
NoTransform(s) == Own(s, "parse") = {}
Variants(s) == Get(s, "_schemas")
IsUnion(s) == Get(s, "cls") = "Union"
Positions(seq, type) == {i \in 1..Len(seq) : TypeOfSchema(seq[i]) = type}

\* C8: whenever a default v has been set on a schema (of any kind, also wrapped
\* in a positional, also when the schema is marked optional before or after),
\* parse(undefined) returns v.
C8_DefaultReturned ==
    (/\ spc = "parsed" /\ input = Undefined
     /\ HasDefault(Underlying(schema)) /\ NoTransform(Underlying(schema)))
    => result = Ok(Get(Underlying(schema), "_defaultValue"))

\* C9: in every union with a Number and a String variant the Number variant is
\* attempted before the String variant, so "42" never parses to the string "42".
C9_NumberBeforeString ==
    (/\ spc = "parsed" /\ IsUnion(schema)
     /\ Positions(Variants(schema), "number") # {}
     /\ Positions(Variants(schema), "string") # {})
    => /\ \A i \in Positions(sortedSchemas(Variants(schema)), "number") :
            \A j \in Positions(sortedSchemas(Variants(schema)), "string") : i < j
       /\ input = Str("42") => result # Ok(Str("42"))

\* C10: the union's parse of a value succeeds whenever some variant's parse of
\* it succeeds, with the result of the first such variant in attempt order: a
\* failing earlier variant never ends the union.
C10_FirstSucceedingVariant ==
    (spc = "parsed" /\ IsUnion(schema) /\ input # Undefined)
    => LET sorted == sortedSchemas(Variants(schema))
           succeeding == {i \in 1..Len(sorted) : parse(sorted[i], input, "value").ok}
       IN  succeeding # {} => result = parse(sorted[SetMin(succeeding)], input, "value")

\* a non-empty list of non-empty texts without comma or surrounding blanks
IsCleanList(v) ==
    /\ v.t = "array" /\ Len(v.a) > 0
    /\ \A i \in 1..Len(v.a) :
          /\ v.a[i].t = "string" /\ v.a[i].s # ""
          /\ ~Includes(v.a[i].s, ",") /\ Trim(v.a[i].s) = v.a[i].s
Texts(v) == [i \in 1..Len(v.a) |-> v.a[i].s]
\* the pieces of a text between its commas, trimmed, the empty ones left out
Pieces(s) ==
    LET parts == Split(s, ",")
    IN  SelectSeq([i \in 1..Len(parts) |-> Str(Trim(parts[i]))], LAMBDA x : x.s # "")
IsArrayOfStrings(s) == Get(s, "cls") = "Array" /\ Get(s, "_itemSchema") = StringSchema

\* C11: for z.array(z.string()), with any modifiers, parsing a non-empty list
\* of non-empty comma-free trimmed texts gives what parsing the texts joined
\* by commas gives; parsing a text with commas gives what parsing the list of
\* its trimmed non-empty pieces gives, so 'a,b,,c' yields ['a','b','c'].
C11_CommaJoinedEqualsList ==
    (spc = "parsed" /\ IsArrayOfStrings(schema))
    => /\ IsCleanList(input)
            => result = parse(schema, Str(Join(Texts(input), ",")), "value")
       /\ (input.t = "string" /\ Includes(input.s, ","))
            => result = parse(schema, Arr(Pieces(input.s)), "value")
       /\ (input = Str("a,b,,c") /\ NoTransform(schema))
            => result = Ok(Arr(<<Str("a"), Str("b"), Str("c")>>))

\* 'a,b,,c' was parsed by an array schema to its three pieces
C11_Witness ==
    /\ spc = "parsed" /\ IsArrayOfStrings(schema) /\ input = Str("a,b,,c")
    /\ result = Ok(Arr(<<Str("a"), Str("b"), Str("c")>>))

\* ------------------------------------------------------------------------
\* Claims on the argument parser
\* ------------------------------------------------------------------------
\* the value recorded under a dotted path, and the last one recorded there
RECURSIVE ValueAt(_, _)
ValueAt(v, keys) == IF Len(keys) = 0 THEN v ELSE ValueAt(Prop(v, keys[1]), Tail(keys))
LastRecorded(v) == IF v.t = "array" /\ Len(v.a) > 0 THEN v.a[Len(v.a)] ELSE v

\* the parse of the tokens before '--' alone
BeforeAlone == ArgumentParser_parse(ArgsBefore(argv), parserOptions)

\* C4: when argv contains '--', the tokens after the first '--' are kept apart
\* from the scan, which never reaches them; the call ends as the call on the
\* tokens before '--' alone ends, with the same raw options, the same options
\* or error, and its positionals followed by the tokens after '--', in order.
C4_DoubleDashBoundary ==
    (ps.status # "new" /\ DoubleDashIndex(argv) # 0)
    => /\ ps.rawArgs = SubSeq(argv, DoubleDashIndex(argv) + 1, Len(argv))
       /\ ps.args = SubSeq(argv, 1, DoubleDashIndex(argv) - 1)
       /\ ps.i <= DoubleDashIndex(argv)
       /\ ps.status \in {"done", "failed"}
            => /\ ps.status = BeforeAlone.status
               /\ ps.rawOptions = BeforeAlone.rawOptions
               /\ ps.parsed = BeforeAlone.parsed
               /\ ps.e = BeforeAlone.e
       /\ ps.status = "done"
            => ps.positionalArgs = BeforeAlone.positionalArgs \o ps.rawArgs

\* a call that returned, with a positional before '--' and a token after it
\* that looks like an option
C4_Witness ==
    /\ ps.status = "done" /\ DoubleDashIndex(argv) # 0
    /\ Len(ps.rawArgs) > 0 /\ StartsWith(ps.rawArgs[1], "-") /\ ps.rawArgs[1] # "--"
    /\ Len(ps.positionalArgs) > Len(ps.rawArgs)

\* the --no- token the scan is about to take, its path and its main schema
AtNoFlag ==
    /\ Scanning /\ StartsWith(ps.args[ps.i], "--no-")
    /\ HasOption(parserOptions, Split(KeyPathOf(ps.args[ps.i], 5), ".")[1])
NoKeys == Split(KeyPathOf(ps.args[ps.i], 5), ".")
NoMain == parserOptions.o[NoKeys[1]]

DefaultsTrue(s) == HasDefault(s) /\ Get(s, "_defaultValue") = Bool(TRUE)
BooleanVariants(s) == SelectSeq(Get(s, "_schemas"), LAMBDA v : TypeOfSchema(v) = "boolean")
\* the object schemas a nested path may start from
ObjectParents(main) ==
    IF TypeOfSchema(main) = "object" THEN {main}
    ELSE IF TypeOfSchema(main) = "union"
    THEN {v \in Range(Get(main, "_schemas")) : TypeOfSchema(v) = "object"}
    ELSE {}

\* the acceptance rule as stated: a Boolean with default true, or a union with
\* such a variant, at the path
StatedNegatable(s) ==
    \/ TypeOfSchema(s) = "boolean" /\ DefaultsTrue(s)
    \/ /\ TypeOfSchema(s) = "union"
       /\ \E i \in 1..Len(BooleanVariants(s)) : DefaultsTrue(BooleanVariants(s)[i])
StatedNegatableAt(main, keys) ==
    IF Len(keys) = 1 THEN StatedNegatable(main)
    ELSE \E parent \in ObjectParents(main) :
             /\ getNestedSchema(parent, Tail(keys)) # NoSchema
             /\ StatedNegatable(getNestedSchema(parent, Tail(keys)))

\* the acceptance rule with the defaults the parser also honours: the default
\* true of the union itself, and of the parent object at a one-key path
Negatable(s) ==
    \/ TypeOfSchema(s) = "boolean" /\ DefaultsTrue(s)
    \/ /\ TypeOfSchema(s) = "union" /\ Len(BooleanVariants(s)) > 0
       /\ DefaultsTrue(s) \/ DefaultsTrue(BooleanVariants(s)[1])
NegatableAt(main, keys) ==
    IF Len(keys) = 1 THEN Negatable(main)
    ELSE \E parent \in ObjectParents(main) :
             LET reached == getNestedSchema(parent, Tail(keys))
             IN  /\ reached # NoSchema
                 /\ \/ Negatable(reached)
                    \/ /\ Len(keys) = 2 /\ TypeOfSchema(reached) = "boolean"
                       /\ HasDefault(parent)
                       /\ Prop(Get(parent, "_defaultValue"), keys[2]) = Bool(TRUE)

\* the step accepts the token: false is the last value at the path, the next
\* token is left to the scan
NoFlagAccepted ==
    /\ ps'.status = "scan" /\ ps'.i = ps.i + 1
    /\ LastRecorded(ValueAt(ps'.rawOptions, NoKeys)) = Bool(FALSE)
    /\ ps'.positionalArgs = ps.positionalArgs
\* the step rejects the token and records nothing
NoFlagRejected ==
    /\ ps'.status = "failed"
    /\ ps'.e = CLIError(ps.args[ps.i] \o " cannot be negated")
    /\ ps'.rawOptions = ps.rawOptions
\* a value that is no object is already recorded on the way to the path
PathTaken ==
    \E n \in 1..(Len(NoKeys) - 1) :
        /\ ValueAt(ps.rawOptions, SubSeq(NoKeys, 1, n)) # Undefined
        /\ ValueAt(ps.rawOptions, SubSeq(NoKeys, 1, n)).t # "object"
NoFlagConflict ==
    /\ PathTaken
    /\ ps'.status = "failed" /\ ps'.rawOptions = ps.rawOptions
    /\ ps'.e # CLIError(ps.args[ps.i] \o " cannot be negated")

NegatesBoolean(main, keys) ==
    IF Len(keys) = 1
    THEN \/ TypeOfSchema(main) = "boolean"
         \/ TypeOfSchema(main) = "union" /\ Len(BooleanVariants(main)) > 0
    ELSE /\ TypeOfSchema(main) = "object"
         /\ getNestedSchema(main, Tail(keys)) # NoSchema
         /\ TypeOfSchema(getNestedSchema(main, Tail(keys))) = "boolean"

\* C7: a call with the single token --no-<path> returns with false at the
\* path when the path is a Boolean option whatever its default, a union with
\* a Boolean variant or a Boolean nested in an object, and fails with 'cannot
\* be negated' when it is a text option.
C7_NegationBoundary ==
    LET keys == Split(KeyPathOf(argv[1], 5), ".")
        main == parserOptions.o[keys[1]]
    IN  (/\ ps.status \in {"done", "failed"}
         /\ Len(argv) = 1 /\ StartsWith(argv[1], "--no-")
         /\ HasOption(parserOptions, keys[1]))
        => /\ NegatesBoolean(main, keys)
                => ps.status = "done" /\ ValueAt(ps.parsed, keys) = Bool(FALSE)
           /\ (Len(keys) = 1 /\ TypeOfSchema(main) = "string")
                => /\ ps.status = "failed"
                   /\ ps.e = CLIError(argv[1] \o " cannot be negated")

\* the values recorded at a path, as a list
AsList(v) == IF v = Undefined THEN <<>> ELSE IF v.t = "array" THEN v.a ELSE <<v>>
\* the long flags of ps.args with the given path, and the value each one gives
\* to an option that needs a value: the text after '=', else the next token
FlagsOf(path) ==
    SelectSeq([i \in 1..Len(ps.args) |-> i],
              LAMBDA i : IsFlag(ps.args[i]) /\ KeyPathOf(ps.args[i], 2) = path)
GivenAt(i) ==
    IF Includes(ps.args[i], "=") THEN Str(Join(Tail(Split(ps.args[i], "=")), "="))
    ELSE Str(ps.args[i + 1])
Given(path, upTo) ==
    LET at == SelectSeq(FlagsOf(path), LAMBDA i : i < upTo)
    IN  [n \in 1..Len(at) |-> GivenAt(at[n])]
\* the long flag the scan is about to take, no negation, and its path
AtPlainFlag ==
    Scanning /\ IsFlag(ps.args[ps.i]) /\ ~StartsWith(ps.args[ps.i], "--no-")
FlagKeys == Split(KeyPathOf(ps.args[ps.i], 2), ".")
ArrayPaths == {"items", "deep.list"}

\* C12: every long flag the scan accepts adds one value after the values
\* already recorded at its path and changes none of them; for the array
\* options the values recorded are at every moment the values given by the
\* occurrences scanned so far, in argv order, and a call that returns with
\* two or more occurrences of --items returns exactly these values.
C12_RepeatedFlagsAccumulate ==
    /\ [][(AtPlainFlag /\ ps'.status = "scan")
            => /\ Len(AsList(ValueAt(ps'.rawOptions, FlagKeys)))
                    = Len(AsList(ValueAt(ps.rawOptions, FlagKeys))) + 1
               /\ SubSeq(AsList(ValueAt(ps'.rawOptions, FlagKeys)), 1,
                         Len(AsList(ValueAt(ps.rawOptions, FlagKeys))))
                    = AsList(ValueAt(ps.rawOptions, FlagKeys))]_vars
    /\ []((parserOptions = OptsArray /\ ps.status \in {"scan", "done"})
            => /\ \A path \in ArrayPaths :
                     AsList(ValueAt(ps.rawOptions, Split(path, "."))) = Given(path, ps.i)
               /\ (ps.status = "done" /\ Len(Given("items", ps.i)) >= 2)
                     => Prop(ps.parsed, "items") = Arr(Given("items", ps.i)))

\* a call with two occurrences of --items returned their values in order
C12_Witness ==
    /\ ps.status = "done" /\ parserOptions = OptsArray
    /\ Len(FlagsOf("items")) = 2 /\ Len(ps.args) = 3
    /\ Prop(ps.parsed, "items") = Arr(<<Str("a"), Str("c")>>)

\* the long flag the scan is about to take is a Boolean option without '='
AtToggle ==
    /\ AtPlainFlag /\ ~Includes(ps.args[ps.i], "=") /\ Len(FlagKeys) = 1
    /\ HasOption(parserOptions, FlagKeys[1])
    /\ TypeOfSchema(parserOptions.o[FlagKeys[1]]) = "boolean"
BooleanLiterals == {"true", "false", "0", "1"}
NextIsLiteral == ps.i < Len(ps.args) /\ ps.args[ps.i + 1] \in BooleanLiterals

\* C15: a Boolean flag without '=value' takes the next token exactly when it
\* is one of true, false, 0, 1; otherwise the flag records true and the next
\* token stays in the stream for the scan.
C15_ToggleArity ==
    [][AtToggle
        => /\ ps'.status = "scan"
           /\ IF NextIsLiteral
              THEN /\ ps'.i = ps.i + 2
                   /\ LastRecorded(ValueAt(ps'.rawOptions, FlagKeys)) = Str(ps.args[ps.i + 1])
              ELSE /\ ps'.i = ps.i + 1
                   /\ LastRecorded(ValueAt(ps'.rawOptions, FlagKeys)) = Bool(TRUE)]_vars

\* the key and the value a flag of the loader option stands for when a dot
\* inside quotes is part of the key
LoaderEntry ==
    [t \in {"--loader.'.p'=x", "--loader.\"a.b\"=v", "--loader.n=y"} |->
        IF t = "--loader.'.p'=x" THEN <<".p", "x">>
        ELSE IF t = "--loader.\"a.b\"=v" THEN <<"a.b", "v">>
        ELSE <<"n", "y">>]
LoaderCall ==
    /\ parserOptions = OptsLoader /\ ps.status \in {"done", "failed"}
    /\ \A i, j \in 1..Len(ps.args) : ps.args[i] = ps.args[j] => i = j

\* C16: a call whose flags address distinct keys of the any-keys object,
\* quoted or not, returns the object with one entry per flag: the key is the
\* segment with its quotes removed, dots inside the quotes included.
C16_QuotedSegments ==
    LoaderCall
        => /\ ps.status = "done"
           /\ \A i \in 1..Len(ps.args) :
                 Prop(Prop(ps.parsed, "loader"), LoaderEntry[ps.args[i]][1])
                    = Str(LoaderEntry[ps.args[i]][2])
           /\ Len(Prop(ps.parsed, "loader").k) = Len(ps.args)

\* the call used the simple form, the dotted form, of a top-level key
UsedSimple(key) == \E i \in 1..Len(ps.args) : KeyPathOf(ps.args[i], 2) = key /\ IsFlag(ps.args[i])
UsedDotted(key) ==
    \E i \in 1..Len(ps.args) :
        IsFlag(ps.args[i]) /\ StartsWith(KeyPathOf(ps.args[i], 2), key \o ".")
MixedForms(key) ==
    /\ parserOptions = OptsForms /\ ps.status \in {"done", "failed"}
    /\ UsedSimple(key) /\ UsedDotted(key)

\* a dotted flag of the key whose path does not end with the key itself
DottedPlain(key) ==
    \E i \in 1..Len(ps.args) :
        /\ IsFlag(ps.args[i]) /\ StartsWith(KeyPathOf(ps.args[i], 2), key \o ".")
        /\ ~EndsWith(KeyPathOf(ps.args[i], 2), key)

ThrowingReached ==
    /\ spc = "parsed"
    /\ \/ schema \in {ThrowingText, PositionalSchema("file", ThrowingText)}
          /\ input.t = "string"
       \/ schema = ArraySchema(ThrowingText)
          /\ input \in {Str("abc"), Str("a,b"), Arr(<<Str("x")>>), Arr(<<Str("a"), Str("b")>>)}
       \/ schema = ObjectSchema(<<"a">>, [a |-> ThrowingText])
          /\ input = Obj(<<"a">>, [a |-> Str("x")])
       \/ schema = UnionSchema(<<ThrowingText, NumberSchema>>)
          /\ input = Str("abc")

\* C18: the Error a transform function throws is what parse throws, wherever
\* the transformed schema sits.
C18_TransformErrorPropagates ==
    ThrowingReached => result = Throw(Error("transform failed"))

\* ------------------------------------------------------------------------
\* Calls on a parser that was used before
\* ------------------------------------------------------------------------
\* what a call hands back: the value returned or the error thrown
Outcome(p) ==
    IF p.status = "done"
    THEN [returned |-> TRUE, parsed |-> p.parsed, positionalArgs |-> p.positionalArgs,
          rawArgs |-> p.rawArgs, e |-> CLIError("")]
    ELSE [returned |-> FALSE, parsed |-> Undefined, positionalArgs |-> <<>>,
          rawArgs |-> <<>>, e |-> p.e]

\* C19: whatever the calls made before on the same parser, a call starts
\* with an empty usage map and empty raw options, and what it returns or
\* throws is what the same argv returns or throws on a parser never used.
C19_CallsAreIndependent ==
    /\ [][ps.status \in {"new", "done", "failed"}
            => ps'.flagUsage = <<>> /\ ps'.rawOptions = EmptyObject
               /\ ps'.positionalArgs = <<>>]_vars
    /\ [](ps.status \in {"done", "failed"}
            => Outcome(ps) = Outcome(ArgumentParser_parse(argv, parserOptions)))

\* a call with the dotted form returned on a parser whose call before used
\* the simple form of the same key
C19_Witness ==
    /\ ps.status = "done" /\ argv = <<"--dts.splitting">>
    /\ "dts" \in DOMAIN ps.usageBefore /\ ps.usageBefore["dts"] = "simple"
    /\ ps.flagUsage["dts"] = "object"
    /\ Prop(ps.parsed, "dts") = Obj(<<"splitting">>, [splitting |-> Bool(TRUE)])

\* ------------------------------------------------------------------------
\* The list of positionals
\* ------------------------------------------------------------------------
\* at most one variadic schema, and no schema after it
VariadicLast(positionals) ==
    Variadics(positionals) \subseteq {Len(positionals)}
\* a positional() or rest() call on the CLI, on the builder
CliListCall == CallCliPositional \/ CallCliRest
BuilderListCall == CallBuilderPositional \/ CallBuilderRest
RefusalMessages ==
    {"Cannot add positional after variadic positional",
     "Cannot have multiple variadic positionals"}
\* a positional() or rest() call on a list that holds a variadic schema
CallOnClosedList ==
    \/ (CliListCall /\ HasVariadic(cli._positionals))
    \/ (BuilderListCall /\ HasVariadic(builder._positionals))
\* the call threw one of the two errors and changed no list
Refused ==
    /\ ret'.kind = "throw" /\ ret'.v.name = "CLIError"
    /\ ret'.v.message \in RefusalMessages
    /\ cli' = cli /\ builder' = builder

\* C20: the list of the CLI, of the builder and of every command made of a
\* builder holds at most one variadic schema, in the last place; a
\* positional() or rest() call on a list that holds one throws and leaves
\* the lists as they were.
C20_OneVariadicLast ==
    /\ [](/\ VariadicLast(cli._positionals) /\ VariadicLast(builder._positionals)
          /\ \A i \in 1..Len(cli._commands) : VariadicLast(cli._commands[i].positionals))
    /\ [][CallOnClosedList => Refused]_vars

\* a second rest() on the CLI was refused: the list still ends with the one
\* variadic schema
C20_Witness ==
    /\ ret = [kind |-> "throw", v |-> CLIError("Cannot have multiple variadic positionals")]
    /\ Len(cli._positionals) = 2 /\ Variadics(cli._positionals) = {2}

\* ------------------------------------------------------------------------
\* Claims on the dispatch of cli.parse
\* ------------------------------------------------------------------------
HelpTokens == {"--help", "-h"}
VersionTokens == {"--version", "-v"}
Called == cpc # "idle"
Ended == cpc \in {"returned", "exited", "threw"}
Logged(entry) == \E i \in 1..Len(log) : log[i] = entry
HelpShown == Logged("showHelp") \/ Logged("showCommandHelp")
IsResult(v) == v.t = "object" /\ ObjectKeys(v) = <<"options", "positionals", "rest">>

\* commands are registered, argv has no help or version token, and its first
\* token is neither an option nor the name of a command
UnknownCommandCall ==
    /\ Called /\ Len(cli._commands) > 0 /\ Len(argv) > 0
    /\ \A i \in 1..Len(argv) : argv[i] \notin HelpTokens \cup VersionTokens
    /\ ~StartsWith(argv[1], "-") /\ FindCommand(cli._commands, argv[1]) = 0

\* C1: with commands registered, no help or version token in argv and a first
\* token that is no option and no command name, the call never reaches the
\* main parse or a command: no action is invoked, no option or positional
\* schema is evaluated, and the call ends with the unknown-command error
\* reported (exit code 1, or the error thrown when NO_EXIT is set).
C1_UnknownCommand ==
    UnknownCommandCall
    => /\ cpc \notin {"parseMainCommand", "executeCommand", "returned"}
       /\ invoked = <<>> /\ ps = NewParser
       /\ ~Logged("parseMainCommand") /\ ~Logged("executeCommand")
       /\ Ended => /\ Logged("showError")
                   /\ frame.error = CLIError("Command '" \o argv[1] \o "' not found")
                   /\ IF noExit THEN ret = [kind |-> "throw", v |-> frame.error]
                      ELSE ret = [kind |-> "exit", v |-> Num(1)]

\* the unknown-command error was thrown for a first token followed by an option
C1_Witness ==
    /\ UnknownCommandCall /\ cpc = "threw" /\ Len(argv) > 1 /\ StartsWith(argv[2], "--")
    /\ ret.v = CLIError("Command 'foo' not found")

\* C2 as stated: a call returns undefined exactly when the action of a matched
\* command ran, and every other call that returns gives a result of options,
\* positionals and rest, whichever way the exit hook behaves.
C2_AsStated ==
    cpc = "returned"
    => /\ ret.v = Undefined <=> invoked # <<>>
       /\ ret.v # Undefined => IsResult(ret.v)

\* C2, amended: a call returns undefined exactly when the action of a matched
\* command ran and returned, or when help was shown and the exit hook returned
\* because NO_EXIT is set; every other call that returns gives a result of
\* options, positionals and rest; a call whose action ran and returned never
\* ends otherwise than by returning undefined.
C2_UndefinedWhenHandled ==
    /\ cpc = "returned"
         => /\ ret.kind = "return"
            /\ ret.v = Undefined <=> (invoked # <<>> \/ (noExit /\ HelpShown))
            /\ ret.v # Undefined => IsResult(ret.v)
    /\ (Ended /\ invoked # <<>> /\ cli._commands[frame.command].action = "returns")
         => cpc = "returned" /\ ret.v = Undefined

\* a call that returned undefined after the action of build ran on an option
C2_Witness ==
    /\ cpc = "returned" /\ ret.v = Undefined
    /\ Len(invoked) = 1 /\ invoked[1].command = "build"
    /\ Prop(Prop(invoked[1].args, "options"), "out") = Str("foo")

\* C3: when a version is configured and argv has --version or -v, the call
\* prints the version and ends there, handled with exit code 0: no help
\* handling, command routing, option parsing or error report follows in the
\* call, whether the exit hook ends the process or returns.
C3_VersionTerminal ==
    (/\ cli._version # "" /\ \E i \in 1..Len(argv) : argv[i] \in VersionTokens
     /\ cpc \notin {"idle", "handleVersion"})
    => /\ log = <<"handleVersion", "console.log(version)", "processExit(0)">>
       /\ cpc \in {"exited", "returned"}
       /\ cpc = "exited" => ret = [kind |-> "exit", v |-> Num(0)]
       /\ invoked = <<>> /\ ps = NewParser

\* the tokens after the first '--'
AfterDoubleDash == SubSeq(argv, DoubleDashIndex(argv) + 1, Len(argv))
HasRest ==
    \E i \in 1..Len(cli._positionals) :
        Has(cli._positionals[i], "_isVariadic") /\ Get(cli._positionals[i], "_isVariadic")

\* C5: for a CLI with a rest schema, a call whose help and version tokens all
\* stand after the first '--' shows no help and prints no version: it is
\* parsed and returns a result whose rest ends with the tokens after '--',
\* unchanged and in order.
C5_NoHelpAfterDoubleDash ==
    (/\ Ended /\ HasRest /\ DoubleDashIndex(argv) # 0
     /\ \E i \in 1..Len(argv) : argv[i] \in HelpTokens \cup VersionTokens
     /\ \A i \in 1..Len(argv) :
            argv[i] \in HelpTokens \cup VersionTokens => i > DoubleDashIndex(argv))
    => /\ ~HelpShown /\ ~Logged("console.log(version)")
       /\ cpc = "returned" /\ IsResult(ret.v)
       /\ Prop(ret.v, "rest").t = "array"
       /\ Len(Prop(ret.v, "rest").a) >= Len(AfterDoubleDash)
       /\ \A i \in 1..Len(AfterDoubleDash) :
            Prop(ret.v, "rest").a[Len(Prop(ret.v, "rest").a) - Len(AfterDoubleDash) + i]
                = Str(AfterDoubleDash[i])

\* the main parse ran and the options were accepted: ps.positionalArgs holds
\* the tokens that are no flag and no value of a flag
MainResolved == Ended /\ Logged("parseMainCommand") /\ ps.status = "done"
\* the schemas before the variadic one, and what each makes of its token
FixedSchemas == SelectSeq(cli._positionals, LAMBDA s : ~Has(s, "_isVariadic"))
FixedParsed ==
    [i \in 1..Len(FixedSchemas) |->
        parse(FixedSchemas[i],
              IF i <= Len(ps.positionalArgs) THEN Str(ps.positionalArgs[i]) ELSE Undefined,
              Get(FixedSchemas[i], "_name"))]
\* the tokens after the first n, and what the item schema of rest makes of them
Remaining == SubSeq(ps.positionalArgs, Len(FixedSchemas) + 1, Len(ps.positionalArgs))
RestParsed ==
    [j \in 1..Len(Remaining) |->
        parse(Get(cli._positionals[Len(cli._positionals)], "_itemSchema"),
              Str(Remaining[j]), "rest")]

RawTokens == [i \in 1..Len(ps.positionalArgs) |-> Str(ps.positionalArgs[i])]

\* C14: a CLI that declares no positional and no variadic schema returns the
\* tokens that are no flag, unvalidated and in order, as positionals; the
\* call does not fail on them; the same for a matched command and its action.
C14_RawPositionals ==
    /\ (MainResolved /\ Len(cli._positionals) = 0)
         => /\ cpc = "returned"
            /\ Prop(ret.v, "positionals") = Arr(RawTokens)
    /\ (/\ Ended /\ Logged("executeCommand") /\ ps.status = "done"
         /\ Len(cli._commands[frame.command].positionals) = 0)
         => /\ Len(invoked) = 1
            /\ Prop(invoked[1].args, "positionals") = Arr(RawTokens)


\* ------------------------------------------------------------------------
\* The dispatch of a command
\* ------------------------------------------------------------------------
Occurrences(seq, entry) == Cardinality({i \in 1..Len(seq) : seq[i] = entry})
\* the command the call was routed to, and whether the scan and the
\* validation of its options, then of its positionals, went through
Dispatched == Logged("executeCommand")
TheCommand == cli._commands[frame.command]
CommandValid ==
    /\ ps.status = "done"
    /\ parsePositionals(ps.positionalArgs, TheCommand.positionals).ok

\* C21: a call invokes at most one action, and only that of the command it
\* was routed to, after the scan and the validation of all its options and
\* positionals went through, with the values they produced; when one of them
\* failed no action is invoked and the call ends with one showError and one
\* processExit(1) for the error that failed it.
C21_AllOrNothing ==
    /\ Len(invoked) <= 1
    /\ Len(invoked) = 1
          => /\ Dispatched /\ CommandValid
             /\ invoked[1].command = TheCommand.name
             /\ Prop(invoked[1].args, "options") = ps.parsed
             /\ ObjectKeys(ps.parsed) = TheCommand.options.k
    /\ (Dispatched /\ ~CommandValid)
          => /\ invoked = <<>>
             /\ cpc \in {"catch", "exited", "threw"}
             /\ frame.error.message # ""
             /\ Ended => /\ Occurrences(log, "showError") = 1
                         /\ Occurrences(log, "processExit(1)") = 1
                         /\ ret = IF noExit THEN [kind |-> "throw", v |-> frame.error]
                                  ELSE [kind |-> "exit", v |-> Num(1)]

\* the positional of the command was refused: no action, one error, exit 1
C21_Witness ==
    /\ argv = <<"deploy", "x">> /\ cpc = "exited" /\ ps.status = "done"
    /\ invoked = <<>> /\ Occurrences(log, "showError") = 1
    /\ ret = [kind |-> "exit", v |-> Num(1)]


\* the two entries the catch block of parse leaves in the log
Reported == <<"showError", "processExit(1)">>

\* C22: while the promise of an action is pending the call has returned
\* undefined and has reported nothing; a rejection adds one showError and one
\* processExit(1), as the catch block does, and exits unless NO_EXIT is set;
\* a resolution changes nothing else.
C22_PendingAction ==
    /\ [](frame.promise = "pending"
            => /\ cpc = "returned" /\ ret = [kind |-> "return", v |-> Undefined]
               /\ Len(invoked) = 1 /\ ~Logged("showError") /\ ~Logged("processExit(1)"))
    /\ [][(frame.promise = "pending" /\ frame'.promise = "rejected")
            => /\ log' = log \o Reported
               /\ IF noExit THEN cpc' = cpc /\ ret' = ret
                  ELSE cpc' = "exited" /\ ret' = [kind |-> "exit", v |-> Num(1)]]_vars
    /\ [][(frame.promise = "pending" /\ frame'.promise = "resolved")
            => /\ log' = log /\ cpc' = cpc /\ ret' = ret]_vars
    /\ [][cpc = "catch" => log' = log \o Reported]_vars

\* the promise of the watch action rejected after the call had returned
C22_Witness ==
    /\ argv = <<"watch">> /\ frame.promise = "rejected" /\ cpc = "exited"
    /\ log = <<"handleVersion", "handleHelp", "extractCommand", "executeCommand",
               "showError", "processExit(1)">>
    /\ ret = [kind |-> "exit", v |-> Num(1)]


\* ------------------------------------------------------------------------
\* The error of a union no variant accepts
\* ------------------------------------------------------------------------
\* the score of a failed variant: 10 for every key of the input that is a key
\* of the shape, 5 more if a required field is missing, for an object variant;
\* 1 for another variant of the kind of the input
Score(s, value) ==
    IF TypeOfSchema(s) = "object"
    THEN 10 * Cardinality({k \in Range(ObjectKeys(value)) :
                              Has(s, "_shape") /\ k \in Range(Get(s, "_shapeKeys"))})
         + (IF getMissingRequiredFields(s, value) # {} THEN 5 ELSE 0)
    ELSE IF TypeOfSchema(s) = TypeOf(value) THEN 1
    ELSE 0
\* the first variant in attempt order with the highest score
TopVariant(sorted, value) ==
    SetMin({i \in 1..Len(sorted) :
               \A j \in 1..Len(sorted) : Score(sorted[j], value) <= Score(sorted[i], value)})
AllVariantsFail ==
    /\ spc = "parsed" /\ IsUnion(schema) /\ input # Undefined
    /\ \A i \in 1..Len(Variants(schema)) : ~parse(Variants(schema)[i], input, "value").ok

\* C23: the error of a union none of whose variants accepts the value is the
\* error of the first variant with the highest score, or the error 'accepts
\* multiple formats' when that score is 0.
C23_MostSpecificError ==
    AllVariantsFail
        => LET sorted == sortedSchemas(Variants(schema))
               top == TopVariant(sorted, input)
           IN  result = IF Score(sorted[top], input) > 0
                        THEN parse(sorted[top], input, "value")
                        ELSE Throw(CLIError("value accepts multiple formats"))


\* ------------------------------------------------------------------------
\* The arity of a union flag
\* ------------------------------------------------------------------------
\* the long flag the scan is about to take is a Union option without '=', and
\* the forms of the option are not mixed
AtUnionFlag ==
    /\ AtPlainFlag /\ ~Includes(ps.args[ps.i], "=") /\ Len(FlagKeys) = 1
    /\ HasOption(parserOptions, FlagKeys[1])
    /\ TypeOfSchema(parserOptions.o[FlagKeys[1]]) = "union"
    /\ ~(FlagKeys[1] \in DOMAIN ps.flagUsage /\ ps.flagUsage[FlagKeys[1]] # "simple")
VariantKinds == {TypeOfSchema(s) : s \in Range(Get(parserOptions.o[FlagKeys[1]], "_schemas"))}
NextIsValue ==
    /\ ps.i < Len(ps.args)
    /\ ~StartsWith(ps.args[ps.i + 1], "-") \/ looksLikeNegativeNumber(ps.args[ps.i + 1])
TakesNext ==
    /\ ps'.status = "scan" /\ ps'.i = ps.i + 2
    /\ LastRecorded(ValueAt(ps'.rawOptions, FlagKeys)) = Str(ps.args[ps.i + 1])
TakesTrue ==
    /\ ps'.status = "scan" /\ ps'.i = ps.i + 1
    /\ LastRecorded(ValueAt(ps'.rawOptions, FlagKeys)) = Bool(TRUE)
NeedsAValue ==
    /\ ps'.status = "failed"
    /\ ps'.e = CLIError("--" \o FlagKeys[1] \o " needs a value")

\* C24 as stated: a flag of any Union option without '=value' takes the next
\* token when there is one that is no flag, and the value true otherwise.
C24_AsStated ==
    [][AtUnionFlag => IF NextIsValue THEN TakesNext ELSE TakesTrue]_vars

\* C24: a flag without '=value' of a Union option with a Boolean variant and
\* another variant takes the next token when there is one that is no flag, and
\* the value true otherwise; with Boolean variants only it takes the next token
\* when it is a Boolean literal, and the value true otherwise; without a Boolean
\* variant it takes the next token when there is one that is no flag, and the
\* parse fails with 'needs a value' otherwise.
C24_SoftUnion ==
    [][AtUnionFlag
        => IF VariantKinds = {"boolean"}
           THEN (IF ps.i < Len(ps.args) /\ isBooleanLiteral(ps.args[ps.i + 1]) THEN TakesNext ELSE TakesTrue)
           ELSE IF "boolean" \in VariantKinds
           THEN (IF NextIsValue THEN TakesNext ELSE TakesTrue)
           ELSE (IF NextIsValue THEN TakesNext ELSE NeedsAValue)]_vars

\* a call returned after a soft union flag took true before another flag and a
\* union flag without a Boolean variant took the token after it
C24_Witness ==
    /\ ps.status = "done" /\ parserOptions = OptsSoft
    /\ ps.args = <<"--out", "--level", "x">>
    /\ Prop(ps.parsed, "out") = Bool(TRUE)
    /\ Prop(ps.parsed, "level") = Str("x")


\* ------------------------------------------------------------------------
\* A dotted path through a value that is no object
\* ------------------------------------------------------------------------
\* the prefixes of the path of the flag at which a value that is no object is
\* recorded
BlockedPrefixes ==
    {n \in 1..(Len(FlagKeys) - 1) :
        /\ ValueAt(ps.rawOptions, SubSeq(FlagKeys, 1, n)) # Undefined
        /\ ValueAt(ps.rawOptions, SubSeq(FlagKeys, 1, n)).t # "object"}
AtBlockedFlag ==
    /\ AtPlainFlag /\ HasOption(parserOptions, FlagKeys[1])
    /\ BlockedPrefixes # {}

\* C25: a dotted flag whose path goes through a prefix at which a value that is
\* no object was recorded makes the parse fail; the value is never replaced by
\* an object.
C25_PrefixConflict ==
    [][AtBlockedFlag => ps'.status = "failed"]_vars


\* ------------------------------------------------------------------------
\* What a schema shares with the schema it was derived from
\* ------------------------------------------------------------------------
\* the step derived a schema from schema
Derives == Len(schema') = Len(schema) + 1
\* the step called a setter on a schema that schema was derived from
SetsOnReceiver ==
    /\ Len(schema) > 1 /\ Len(schema') = Len(schema)
    /\ schema' # schema /\ schema'[1] = schema[1]

\* C26: optional(), default(v) and transform(fn) leave the receiver as it was,
\* and a constraint setter called on the receiver afterwards changes the
\* outcome of no parse of the schema derived from it.
C26_NoSharedState ==
    /\ [][Derives => Tail(schema') = schema]_vars
    /\ [][SetsOnReceiver
            => \A v \in Inputs : parse(schema', v, "value") = parse(schema, v, "value")]_vars


\* ------------------------------------------------------------------------
\* An alias and the long flag it stands for
\* ------------------------------------------------------------------------
\* the options that have the alias of the token
AliasedBy(arg) ==
    SelectSeq(parserOptions.k,
        LAMBDA k : /\ Has(parserOptions.o[k], "_alias")
                   /\ Get(parserOptions.o[k], "_alias") = Slice(arg, 1))
\* args with every alias before '--' replaced by the long flag of its option
LongForm(args) ==
    [i \in 1..Len(args) |->
        IF /\ i <= Len(ArgsBefore(args))
           /\ IsAlias(args[i]) /\ Len(AliasedBy(args[i])) > 0
        THEN "--" \o AliasedBy(args[i])[1] ELSE args[i]]
\* what a call hands back, the text of the error left out
Handback(p) == [Outcome(p) EXCEPT !.e = CLIError(""), !.rawArgs = <<>>]

\* C27: a call whose argv writes options by their aliases ends as the call on
\* the argv with the long flags in their place: with the same options and
\* positionals, or with an error where that call ends with an error.
C27_AliasIsLongFlag ==
    (ps.status \in {"done", "failed"} /\ LongForm(argv) # argv)
        => Handback(ps) = Handback(ArgumentParser_parse(LongForm(argv), parserOptions))


\* ------------------------------------------------------------------------
\* The value of an option and the parse of its schema
\* ------------------------------------------------------------------------
\* the options a value was recorded for
Present == {k \in Range(parserOptions.k) : Prop(ps.rawOptions, k) # Undefined}

\* two values with the same content, whatever the order of their keys and
\* whether a property that is undefined is there or not
RECURSIVE Alike(_, _)
Alike(a, b) ==
    IF a.t = "object" /\ b.t = "object"
    THEN \A k \in Range(a.k) \cup Range(b.k) : Alike(Prop(a, k), Prop(b, k))
    ELSE IF a.t = "array" /\ b.t = "array"
    THEN Len(a.a) = Len(b.a) /\ \A i \in 1..Len(a.a) : Alike(a.a[i], b.a[i])
    ELSE a = b
\* the parse of the schema of option k returns what the call reported for k
ReportedAsParsed(k, r) == r.ok /\ Alike(r.v, Prop(ps.parsed, k))

\* C28: in the options a call returns, the value of every option given in argv
\* is what the parse of the schema of the option returns for the value tree the
\* scan recorded for it.
C28_OptionIsSchemaParse ==
    ps.status = "done"
        => \A k \in Present :
              ReportedAsParsed(k, parse(parserOptions.o[k], Prop(ps.rawOptions, k),
                                        "--" \o k))


\* ------------------------------------------------------------------------
\* optional() and default() after transform()
\* ------------------------------------------------------------------------
\* parse(undefined) was called on s.optional() or s.default(v), where
\* s = base.transform(fn) and base is no Boolean
AbsentAfterTransform(p) ==
    /\ spc = "parsed" /\ input = Undefined
    /\ Len(schema) >= 2 /\ p \in DOMAIN schema[1] /\ "parse" \in DOMAIN schema[2]
    /\ TypeOfSchema(schema) # "boolean"

\* C29: on a schema made optional after a transform the parse of undefined
\* returns undefined, and on a schema given a default after a transform it
\* does not fail with the error 'is required'.
C29_AbsenceAfterTransform ==
    /\ AbsentAfterTransform("_isOptional") => result = Ok(Undefined)
    /\ AbsentAfterTransform("_defaultValue") => result # Throw(CLIError("value is required"))


\* ------------------------------------------------------------------------
\* The tokens of a call
\* ------------------------------------------------------------------------
\* the token the scan is at is a flag or an alias
AtOption == Scanning /\ (IsFlag(ps.args[ps.i]) \/ IsAlias(ps.args[ps.i]))
AtPositional == Scanning /\ ~IsFlag(ps.args[ps.i]) /\ ~IsAlias(ps.args[ps.i])
\* the value recorded last for the flag or the alias the scan is at
RecordedNow ==
    IF IsFlag(ps.args[ps.i]) THEN LastRecorded(ValueAt(ps'.rawOptions, FlagKeys))
    ELSE LastRecorded(Prop(ps'.rawOptions, AliasedBy(ps.args[ps.i])[1]))
\* the flag took its own token and no positional
OneToken == ps'.i = ps.i + 1 /\ ps'.positionalArgs = ps.positionalArgs
\* the flag took its own token and the token after it, which is its value
TwoTokens ==
    /\ ps'.i = ps.i + 2 /\ ps'.positionalArgs = ps.positionalArgs
    /\ ps.i < Len(ps.args) /\ ~IsFlag(ps.args[ps.i + 1]) /\ ~IsAlias(ps.args[ps.i + 1])
    /\ RecordedNow = Str(ps.args[ps.i + 1])
\* the token became the last positional and nothing else changed
KeptAsPositional ==
    /\ ps'.i = ps.i + 1 /\ ps'.status = "scan"
    /\ ps'.positionalArgs = Append(ps.positionalArgs, ps.args[ps.i])
    /\ ps'.rawOptions = ps.rawOptions
\* the positions before i of tokens that are neither flags nor aliases
Plain(i) == {j \in 1..(i - 1) : ~IsFlag(ps.args[j]) /\ ~IsAlias(ps.args[j])}
\* the plain tokens before i that no flag stands right before
Unclaimed(i) == {j \in Plain(i) : j = 1 \/ (j - 1) \in Plain(i)}
\* the positionals are tokens before i at increasing positions, and every
\* token before i that no flag can have consumed is one of them
PositionalsInOrder ==
    \E pos \in [1..Len(ps.positionalArgs) -> Plain(ps.i)] :
        /\ \A a, b \in DOMAIN pos : a < b => pos[a] < pos[b]
        /\ \A a \in DOMAIN pos : ps.args[pos[a]] = ps.positionalArgs[a]
        /\ Unclaimed(ps.i) \subseteq Range(pos)

\* C30: the scan takes every token before '--' once, in argv order: a flag or
\* an alias takes its own token and at most the token after it, which is then
\* the value recorded for it; any other token becomes the last positional; the
\* positionals are tokens of argv in argv order.
C30_TokensConserved ==
    /\ [][AtOption => (ps'.status = "scan" => OneToken \/ TwoTokens)]_vars
    /\ [][AtPositional => KeptAsPositional]_vars
    /\ [](ps.status = "scan" => ps.i <= Len(ps.args) + 1 /\ PositionalsInOrder)

\* a call returned in which a flag took the token after it and the token after
\* that one became a positional
C30_Witness ==
    /\ ps.status = "done" /\ parserOptions = OptsDash
    /\ ps.args = <<"--file", "-5", "true">>
    /\ Prop(ps.parsed, "file") = Str("-5")
    /\ ps.positionalArgs = <<"true">>

====
